---- MODULE Spec2Model ----
(***************************************************************************)
(* A model of the chess rules engine (ChessEngine.py: GameState, Move,     *)
(* CastleRights) and of the search bot (myBot.py).                         *)
(*                                                                         *)
(* A piece is the two-character string of the source, kept as the pair of  *)
(* its characters: <<"w","P">> is "wP", <<"-","-">> is "--".  Rows and     *)
(* columns are 0..7 as in the source; the empty tuple () is <<>>.          *)
(***************************************************************************)
EXTENDS Integers, Sequences, FiniteSets, TLC

\* ------------------------------------------------------------------------
\* Bounds of the model
\* ------------------------------------------------------------------------
\* number of plies the players may add freely after an opening line
MaxFree == 1
\* number of undoMove calls in one run
MaxUndo == 1
\* number of findBestMove calls in one run
MaxSearch == 1

\* ------------------------------------------------------------------------
\* Pieces, squares and the initial board
\* ------------------------------------------------------------------------
EMPTY == <<"-", "-">>

Rows == 0 .. 7

OnBoard(r, c) == 0 <= r /\ r < 8 /\ 0 <= c /\ c < 8

Abs(x) == IF x < 0 THEN -x ELSE x

BackRank(col) ==
    [c \in Rows |-> <<col, CASE c \in {0, 7} -> "R"
                             [] c \in {1, 6} -> "N"
                             [] c \in {2, 5} -> "B"
                             [] c = 3 -> "Q"
                             [] OTHER -> "K">>]

InitBoard ==
    [r \in Rows |->
        CASE r = 0 -> BackRank("b")
          [] r = 1 -> [c \in Rows |-> <<"b", "P">>]
          [] r = 6 -> [c \in Rows |-> <<"w", "P">>]
          [] r = 7 -> BackRank("w")
          [] OTHER -> [c \in Rows |-> EMPTY]]

CastleRights(wks, bks, wqs, bqs) ==
    [wks |-> wks, bks |-> bks, wqs |-> wqs, bqs |-> bqs]

\* The state after GameState.__init__.  crRef is the identity of the
\* object currentCastlingRights refers to: the index of the entry of
\* castleRightsLog that it IS (undoMove assigns the logged object itself),
\* or 0 when it is an object of its own.
InitGameState ==
    [board |-> InitBoard,
     whiteToMove |-> TRUE,
     moveLog |-> <<>>,
     whiteKingLocation |-> <<7, 4>>,
     blackKingLocation |-> <<0, 4>>,
     inCheck |-> FALSE,
     checkMate |-> FALSE,
     staleMate |-> FALSE,
     pins |-> <<>>,
     checks |-> <<>>,
     enpassantPossible |-> <<>>,
     enpassantPossibleLog |-> << <<>> >>,
     currentCastlingRights |-> CastleRights(TRUE, TRUE, TRUE, TRUE),
     castleRightsLog |-> << CastleRights(TRUE, TRUE, TRUE, TRUE) >>,
     crRef |-> 0]

\* ------------------------------------------------------------------------
\* Move
\* ------------------------------------------------------------------------
Move(startSq, endSq, board, isEnpassantMove, isPawnPromotion, isCastleMove) ==
    LET pieceMoved == board[startSq[1]][startSq[2]]
    IN  [startRow |-> startSq[1],
         startCol |-> startSq[2],
         endRow |-> endSq[1],
         endCol |-> endSq[2],
         pieceMoved |-> pieceMoved,
         pieceCaptured |->
             IF isEnpassantMove
             THEN (IF pieceMoved = <<"b", "P">> THEN <<"w", "P">> ELSE <<"b", "P">>)
             ELSE board[endSq[1]][endSq[2]],
         isPawnPromotion |-> isPawnPromotion,
         isEnpassantMove |-> isEnpassantMove,
         isCastleMove |-> isCastleMove]

PlainMove(startSq, endSq, board) == Move(startSq, endSq, board, FALSE, FALSE, FALSE)

moveID(m) == m.startRow * 1000 + m.startCol * 100 + m.endRow * 10 + m.endCol

\* Move.__eq__
MoveEq(m1, m2) == moveID(m1) = moveID(m2)

isCaptureMove(m) == m.pieceCaptured # EMPTY

\* ------------------------------------------------------------------------
\* makeMove, undoMove, updateCastleRights
\* ------------------------------------------------------------------------
\* updateCastleRights deriving the rights of the king that moved from the
\* square it arrives on, so that a king back on its home square has them
updateCastleRightsByHomeSquare(cr, move) ==
    IF move.pieceMoved = <<"w", "K">>
    THEN [cr EXCEPT !.wqs = (move.endRow = 7 /\ move.endCol = 4),
                    !.wks = (move.endRow = 7 /\ move.endCol = 4)]
    ELSE IF move.pieceMoved = <<"b", "K">>
    THEN [cr EXCEPT !.bqs = (move.endRow = 0 /\ move.endCol = 4),
                    !.bks = (move.endRow = 0 /\ move.endCol = 4)]
    ELSE cr

\* The castling rights after updateCastleRights(move) has written into the
\* object cr: the assignments of the source in their order.
updateCastleRights(cr, move) ==
    LET c1 == IF move.pieceCaptured = <<"w", "R">>
              THEN (IF move.endCol = 0 THEN [cr EXCEPT !.wqs = FALSE]
                    ELSE IF move.endCol = 7 THEN [cr EXCEPT !.wks = FALSE]
                    ELSE cr)
              ELSE IF move.pieceCaptured = <<"b", "R">>
              THEN (IF move.endCol = 0 THEN [cr EXCEPT !.bqs = FALSE]
                    ELSE IF move.endCol = 7 THEN [cr EXCEPT !.bks = FALSE]
                    ELSE cr)
              ELSE cr
    IN  IF move.pieceMoved = <<"w", "K">>
        THEN [c1 EXCEPT !.wqs = FALSE, !.wks = FALSE]
        ELSE IF move.pieceMoved = <<"b", "K">>
        THEN [c1 EXCEPT !.bqs = FALSE, !.bks = FALSE]
        ELSE IF move.pieceMoved = <<"w", "R">>
        THEN (IF move.startRow = 7
              THEN (IF move.startCol = 0 THEN [c1 EXCEPT !.wqs = FALSE]
                    ELSE IF move.startCol = 7 THEN [c1 EXCEPT !.wks = FALSE]
                    ELSE c1)
              ELSE c1)
        ELSE IF move.pieceMoved = <<"b", "R">>
        THEN (IF move.startRow = 0
              THEN (IF move.startCol = 0 THEN [c1 EXCEPT !.bqs = FALSE]
                    ELSE IF move.startCol = 7 THEN [c1 EXCEPT !.bks = FALSE]
                    ELSE c1)
              ELSE c1)
        ELSE c1

\* makeMove taking the square the pawn lands on as the en-passant target
makeMoveTargetOnLanding(g, move) ==
    LET b1 == [g.board EXCEPT ![move.startRow][move.startCol] = EMPTY]
        b2 == [b1 EXCEPT ![move.endRow][move.endCol] = move.pieceMoved]
        ep == IF move.pieceMoved[2] = "P" /\ Abs(move.startRow - move.endRow) = 2
              THEN <<move.endRow, move.endCol>>
              ELSE <<>>
        b3 == IF move.isEnpassantMove
              THEN [b2 EXCEPT ![move.startRow][move.endCol] = EMPTY]
              ELSE b2
        b4 == IF move.isPawnPromotion
              THEN [b3 EXCEPT ![move.endRow][move.endCol] = <<move.pieceMoved[1], "Q">>]
              ELSE b3
        b5 == IF move.isCastleMove
              THEN (IF move.endCol - move.startCol = 2
                    THEN [b4 EXCEPT ![move.endRow][move.endCol - 1] = b4[move.endRow][move.endCol + 1],
                                    ![move.endRow][move.endCol + 1] = EMPTY]
                    ELSE [b4 EXCEPT ![move.endRow][move.endCol + 1] = b4[move.endRow][move.endCol - 2],
                                    ![move.endRow][move.endCol - 2] = EMPTY])
              ELSE b4
        cr == updateCastleRights(g.currentCastlingRights, move)
        \* the object written by updateCastleRights may be an entry of the log
        log1 == IF g.crRef = 0 THEN g.castleRightsLog
                ELSE [g.castleRightsLog EXCEPT ![g.crRef] = cr]
    IN  [g EXCEPT !.board = b5,
                  !.moveLog = Append(g.moveLog, move),
                  !.whiteToMove = ~g.whiteToMove,
                  !.whiteKingLocation =
                      IF move.pieceMoved = <<"w", "K">>
                      THEN <<move.endRow, move.endCol>> ELSE @,
                  !.blackKingLocation =
                      IF move.pieceMoved = <<"b", "K">>
                      THEN <<move.endRow, move.endCol>> ELSE @,
                  !.enpassantPossible = ep,
                  !.enpassantPossibleLog = Append(g.enpassantPossibleLog, ep),
                  !.currentCastlingRights = cr,
                  !.castleRightsLog = Append(log1, cr)]

makeMove(g, move) ==
    LET b1 == [g.board EXCEPT ![move.startRow][move.startCol] = EMPTY]
        b2 == [b1 EXCEPT ![move.endRow][move.endCol] = move.pieceMoved]
        ep == IF move.pieceMoved[2] = "P" /\ Abs(move.startRow - move.endRow) = 2
              THEN <<(move.endRow + move.startRow) \div 2, move.endCol>>
              ELSE <<>>
        b3 == IF move.isEnpassantMove
              THEN [b2 EXCEPT ![move.startRow][move.endCol] = EMPTY]
              ELSE b2
        b4 == IF move.isPawnPromotion
              THEN [b3 EXCEPT ![move.endRow][move.endCol] = <<move.pieceMoved[1], "Q">>]
              ELSE b3
        b5 == IF move.isCastleMove
              THEN (IF move.endCol - move.startCol = 2
                    THEN [b4 EXCEPT ![move.endRow][move.endCol - 1] = b4[move.endRow][move.endCol + 1],
                                    ![move.endRow][move.endCol + 1] = EMPTY]
                    ELSE [b4 EXCEPT ![move.endRow][move.endCol + 1] = b4[move.endRow][move.endCol - 2],
                                    ![move.endRow][move.endCol - 2] = EMPTY])
              ELSE b4
        cr == updateCastleRights(g.currentCastlingRights, move)
        \* the object written by updateCastleRights may be an entry of the log
        log1 == IF g.crRef = 0 THEN g.castleRightsLog
                ELSE [g.castleRightsLog EXCEPT ![g.crRef] = cr]
    IN  [g EXCEPT !.board = b5,
                  !.moveLog = Append(g.moveLog, move),
                  !.whiteToMove = ~g.whiteToMove,
                  !.whiteKingLocation =
                      IF move.pieceMoved = <<"w", "K">>
                      THEN <<move.endRow, move.endCol>> ELSE @,
                  !.blackKingLocation =
                      IF move.pieceMoved = <<"b", "K">>
                      THEN <<move.endRow, move.endCol>> ELSE @,
                  !.enpassantPossible = ep,
                  !.enpassantPossibleLog = Append(g.enpassantPossibleLog, ep),
                  !.currentCastlingRights = cr,
                  !.castleRightsLog = Append(log1, cr)]

\* undoMove switching the side to move when the move log is empty too
undoMoveSwitchingTurn(g) ==
    IF Len(g.moveLog) = 0 THEN [g EXCEPT !.whiteToMove = ~g.whiteToMove]
    ELSE
    LET move == g.moveLog[Len(g.moveLog)]
        b1 == [g.board EXCEPT ![move.startRow][move.startCol] = move.pieceMoved]
        b2 == [b1 EXCEPT ![move.endRow][move.endCol] = move.pieceCaptured]
        b3 == IF move.isEnpassantMove
              THEN [b2 EXCEPT ![move.endRow][move.endCol] = EMPTY,
                              ![move.startRow][move.endCol] = move.pieceCaptured]
              ELSE b2
        \* the en-passant log is popped only when the move undone is an
        \* en-passant capture
        epLog == IF move.isEnpassantMove
                 THEN SubSeq(g.enpassantPossibleLog, 1, Len(g.enpassantPossibleLog) - 1)
                 ELSE g.enpassantPossibleLog
        ep1 == IF move.isEnpassantMove THEN epLog[Len(epLog)] ELSE g.enpassantPossible
        ep2 == IF move.pieceMoved[2] = "P" /\ Abs(move.startRow - move.endRow) = 2
               THEN <<>> ELSE ep1
        crLog == SubSeq(g.castleRightsLog, 1, Len(g.castleRightsLog) - 1)
        b4 == IF move.isCastleMove
              THEN (IF move.endCol - move.startCol = 2
                    THEN [b3 EXCEPT ![move.endRow][move.endCol + 1] = b3[move.endRow][move.endCol - 1],
                                    ![move.endRow][move.endCol - 1] = EMPTY]
                    ELSE [b3 EXCEPT ![move.endRow][move.endCol - 2] = b3[move.endRow][move.endCol + 1],
                                    ![move.endRow][move.endCol + 1] = EMPTY])
              ELSE b3
    IN  [g EXCEPT !.moveLog = SubSeq(g.moveLog, 1, Len(g.moveLog) - 1),
                  !.board = b4,
                  !.whiteToMove = ~g.whiteToMove,
                  !.whiteKingLocation =
                      IF move.pieceMoved = <<"w", "K">>
                      THEN <<move.startRow, move.startCol>> ELSE @,
                  !.blackKingLocation =
                      IF move.pieceMoved = <<"b", "K">>
                      THEN <<move.startRow, move.startCol>> ELSE @,
                  !.enpassantPossibleLog = epLog,
                  !.enpassantPossible = ep2,
                  !.castleRightsLog = crLog,
                  !.currentCastlingRights = crLog[Len(crLog)],
                  !.crRef = Len(crLog),
                  !.checkMate = FALSE,
                  !.staleMate = FALSE]

undoMove(g) ==
    IF Len(g.moveLog) = 0 THEN g
    ELSE
    LET move == g.moveLog[Len(g.moveLog)]
        b1 == [g.board EXCEPT ![move.startRow][move.startCol] = move.pieceMoved]
        b2 == [b1 EXCEPT ![move.endRow][move.endCol] = move.pieceCaptured]
        b3 == IF move.isEnpassantMove
              THEN [b2 EXCEPT ![move.endRow][move.endCol] = EMPTY,
                              ![move.startRow][move.endCol] = move.pieceCaptured]
              ELSE b2
        \* the en-passant log is popped only when the move undone is an
        \* en-passant capture
        epLog == IF move.isEnpassantMove
                 THEN SubSeq(g.enpassantPossibleLog, 1, Len(g.enpassantPossibleLog) - 1)
                 ELSE g.enpassantPossibleLog
        ep1 == IF move.isEnpassantMove THEN epLog[Len(epLog)] ELSE g.enpassantPossible
        ep2 == IF move.pieceMoved[2] = "P" /\ Abs(move.startRow - move.endRow) = 2
               THEN <<>> ELSE ep1
        crLog == SubSeq(g.castleRightsLog, 1, Len(g.castleRightsLog) - 1)
        b4 == IF move.isCastleMove
              THEN (IF move.endCol - move.startCol = 2
                    THEN [b3 EXCEPT ![move.endRow][move.endCol + 1] = b3[move.endRow][move.endCol - 1],
                                    ![move.endRow][move.endCol - 1] = EMPTY]
                    ELSE [b3 EXCEPT ![move.endRow][move.endCol - 2] = b3[move.endRow][move.endCol + 1],
                                    ![move.endRow][move.endCol + 1] = EMPTY])
              ELSE b3
    IN  [g EXCEPT !.moveLog = SubSeq(g.moveLog, 1, Len(g.moveLog) - 1),
                  !.board = b4,
                  !.whiteToMove = ~g.whiteToMove,
                  !.whiteKingLocation =
                      IF move.pieceMoved = <<"w", "K">>
                      THEN <<move.startRow, move.startCol>> ELSE @,
                  !.blackKingLocation =
                      IF move.pieceMoved = <<"b", "K">>
                      THEN <<move.startRow, move.startCol>> ELSE @,
                  !.enpassantPossibleLog = epLog,
                  !.enpassantPossible = ep2,
                  !.castleRightsLog = crLog,
                  !.currentCastlingRights = crLog[Len(crLog)],
                  !.crRef = Len(crLog),
                  !.checkMate = FALSE,
                  !.staleMate = FALSE]

\* ------------------------------------------------------------------------
\* Check and pin detection
\* ------------------------------------------------------------------------
\* directions of checkForPinsAndChecks, indexed j = 0..7 as in the source
directions ==
    [j \in 0 .. 7 |->
        CASE j = 0 -> <<-1, 0>>
          [] j = 1 -> <<0, -1>>
          [] j = 2 -> <<1, 0>>
          [] j = 3 -> <<0, 1>>
          [] j = 4 -> <<-1, -1>>
          [] j = 5 -> <<-1, 1>>
          [] j = 6 -> <<1, -1>>
          [] OTHER -> <<1, 1>>]

\* knight jumps whose two-rank jumps go two files to the side instead of one
knightMovesTwoByTwo ==
    << <<-2, -2>>, <<-2, 2>>, <<-1, -2>>, <<-1, 2>>,
       <<1, -2>>, <<1, 2>>, <<2, -2>>, <<2, 2>> >>

knightMoves ==
    << <<-2, -1>>, <<-2, 1>>, <<-1, -2>>, <<-1, 2>>,
       <<1, -2>>, <<1, 2>>, <<2, -1>>, <<2, 1>> >>

KingLocation(g) == IF g.whiteToMove THEN g.whiteKingLocation ELSE g.blackKingLocation

NoHit == [pins |-> <<>>, checks |-> <<>>]

\* whether the enemy piece of kind type met at distance i in direction j
\* attacks the king
AttacksAlong(j, i, type, enemyColor) ==
    \/ (0 <= j /\ j <= 3 /\ type = "R")
    \/ (4 <= j /\ j <= 7 /\ type = "B")
    \/ (i = 1 /\ type = "P"
          /\ (\/ (enemyColor = "w" /\ 6 <= j /\ j <= 7)
              \/ (enemyColor = "b" /\ 4 <= j /\ j <= 5)))
    \/ type = "Q"
    \/ (i = 1 /\ type = "K")

\* The inner loop "for i in range(1, 8)" of checkForPinsAndChecks for the
\* direction j, from step i on, possiblePin being the candidate found so far.
RECURSIVE ScanDirection(_, _, _, _, _, _, _)
ScanDirection(board, allyColor, startRow, startCol, j, i, possiblePin) ==
    LET d == directions[j]
        endRow == startRow + d[1] * i
        endCol == startCol + d[2] * i
        enemyColor == IF allyColor = "w" THEN "b" ELSE "w"
    IN  IF i > 7 \/ ~OnBoard(endRow, endCol) THEN NoHit
        ELSE LET endPiece == board[endRow][endCol]
             IN  IF endPiece[1] = allyColor /\ endPiece[2] # "K"
                 THEN IF possiblePin = <<>>
                      THEN ScanDirection(board, allyColor, startRow, startCol, j, i + 1,
                                         <<endRow, endCol, d[1], d[2]>>)
                      ELSE NoHit
                 ELSE IF endPiece[1] = enemyColor
                 THEN IF AttacksAlong(j, i, endPiece[2], enemyColor)
                      THEN IF possiblePin = <<>>
                           THEN [pins |-> <<>>, checks |-> << <<endRow, endCol, d[1], d[2]>> >>]
                           ELSE [pins |-> <<possiblePin>>, checks |-> <<>>]
                      ELSE NoHit
                 ELSE ScanDirection(board, allyColor, startRow, startCol, j, i + 1, possiblePin)

\* the pins and checks of one direction followed by those of the next ones
BothHits(h, t) == [pins |-> h.pins \o t.pins, checks |-> h.checks \o t.checks]

\* The loop "for j in range(len(directions))" for the directions lo .. hi,
\* taken in two halves.
RECURSIVE ScanDirections(_, _, _, _, _, _)
ScanDirections(board, allyColor, startRow, startCol, lo, hi) ==
    IF lo = hi THEN ScanDirection(board, allyColor, startRow, startCol, lo, 1, <<>>)
    ELSE BothHits(ScanDirections(board, allyColor, startRow, startCol,
                                 lo, (lo + hi) \div 2),
                  ScanDirections(board, allyColor, startRow, startCol,
                                 (lo + hi) \div 2 + 1, hi))

\* The loop "for m in knightMoves" for the jumps lo .. hi, taken in two
\* halves.
RECURSIVE KnightChecks(_, _, _, _, _, _)
KnightChecks(board, enemyColor, startRow, startCol, lo, hi) ==
    IF lo < hi
    THEN KnightChecks(board, enemyColor, startRow, startCol, lo, (lo + hi) \div 2)
         \o KnightChecks(board, enemyColor, startRow, startCol, (lo + hi) \div 2 + 1, hi)
    ELSE LET m == knightMoves[lo]
             endRow == startRow + m[1]
             endCol == startCol + m[2]
         IN  IF OnBoard(endRow, endCol)
                /\ board[endRow][endCol][1] = enemyColor
                /\ board[endRow][endCol][2] = "N"
             THEN << <<endRow, endCol, m[1], m[2]>> >>
             ELSE <<>>

\* "return inCheck, pins, checks": the hits of the eight directions, then
\* the checks by knights
PinsAndChecks(rays, kn) ==
    [inCheck |-> rays.checks \o kn # <<>>,
     pins |-> rays.pins,
     checks |-> rays.checks \o kn]

\* checkForPinsAndChecks: [inCheck, pins, checks] for the king of the side
\* to move standing (as recorded in the king-location field) on its square
checkForPinsAndChecks(g) ==
    PinsAndChecks(
        ScanDirections(g.board, IF g.whiteToMove THEN "w" ELSE "b",
                       KingLocation(g)[1], KingLocation(g)[2], 0, 7),
        KnightChecks(g.board, IF g.whiteToMove THEN "b" ELSE "w",
                     KingLocation(g)[1], KingLocation(g)[2], 1, 8))

\* ------------------------------------------------------------------------
\* Pseudo-legal move generation.  Every generator returns the moves it
\* appends and the list self.pins as it leaves it.
\* ------------------------------------------------------------------------
\* "for i in range(len(self.pins) - 1, -1, -1): if pins[i] is on (r, c)":
\* the index (1-based) of the entry found, 0 if none
RECURSIVE PinIndex(_, _, _, _)
PinIndex(pins, r, c, i) ==
    IF i = 0 THEN 0
    ELSE IF pins[i][1] = r /\ pins[i][2] = c THEN i
    ELSE PinIndex(pins, r, c, i - 1)

\* list.remove(x): removes the first element equal to x
RECURSIVE RemoveFirst(_, _)
RemoveFirst(s, x) ==
    IF s = <<>> THEN <<>>
    ELSE IF Head(s) = x THEN Tail(s)
    ELSE <<Head(s)>> \o RemoveFirst(Tail(s), x)

\* range(a, b) and range(a, b, -1) as sequences
RECURSIVE RangeUp(_, _)
RangeUp(a, b) == IF a >= b THEN <<>> ELSE <<a>> \o RangeUp(a + 1, b)

RECURSIVE RangeDown(_, _)
RangeDown(a, b) == IF a <= b THEN <<>> ELSE <<a>> \o RangeDown(a - 1, b)

\* "for i in insideRange: if board[row][i] != '--': blockingPiece = True"
InsideBlocked(board, row, rng) ==
    \E k \in 1 .. Len(rng) : board[row][rng[k]] # EMPTY

\* The loop over outsideRange from position k on: the pair
\* <<attackingPiece, blockingPiece>> it ends with
RECURSIVE OutsideScan(_, _, _, _, _, _)
OutsideScan(board, row, rng, k, enemyColor, attacking) ==
    IF k > Len(rng) THEN <<attacking, FALSE>>
    ELSE LET square == board[row][rng[k]]
         IN  IF square[1] = enemyColor /\ (square[2] = "R" \/ square[2] = "Q")
             THEN OutsideScan(board, row, rng, k + 1, enemyColor, TRUE)
             ELSE IF square # EMPTY THEN <<attacking, TRUE>>
             ELSE OutsideScan(board, row, rng, k + 1, enemyColor, attacking)

\* whether the en-passant capture of the pawn on (row, col) toward the
\* column col + dc passes the test "not attackingPiece or blockingPiece"
EnpassantAllowed(g, row, col, dc, enemyColor) ==
    LET k == KingLocation(g)
        kingRow == k[1]
        kingCol == k[2]
        insideRange ==
            IF kingCol < col
            THEN (IF dc = -1 THEN RangeUp(kingCol + 1, col - 1) ELSE RangeUp(kingCol + 1, col))
            ELSE (IF dc = -1 THEN RangeDown(kingCol - 1, col) ELSE RangeDown(kingCol - 1, col + 1))
        outsideRange ==
            IF kingCol < col
            THEN (IF dc = -1 THEN RangeUp(col + 1, 8) ELSE RangeUp(col + 2, 8))
            ELSE (IF dc = -1 THEN RangeDown(col - 2, -1) ELSE RangeDown(col - 1, -1))
        out == OutsideScan(g.board, row, outsideRange, 1, enemyColor, FALSE)
        attackingPiece == kingRow = row /\ out[1]
        blockingPiece == kingRow = row /\ (InsideBlocked(g.board, row, insideRange) \/ out[2])
    IN  ~attackingPiece \/ blockingPiece

\* the captures of getPawnMoves toward the column col + dc
PawnCaptures(g, row, col, dc, moveAmount, backRow, enemyColor, piecePinned, pinDirection) ==
    IF ~OnBoard(row, col + dc) THEN <<>>
    ELSE IF piecePinned /\ pinDirection # <<moveAmount, dc>> THEN <<>>
    ELSE (IF g.board[row + moveAmount][col + dc][1] = enemyColor
          THEN << Move(<<row, col>>, <<row + moveAmount, col + dc>>, g.board,
                       FALSE, row + moveAmount = backRow, FALSE) >>
          ELSE <<>>)
         \o
         (IF <<row + moveAmount, col + dc>> = g.enpassantPossible
             /\ EnpassantAllowed(g, row, col, dc, enemyColor)
          THEN << Move(<<row, col>>, <<row + moveAmount, col + dc>>, g.board,
                       TRUE, FALSE, FALSE) >>
          ELSE <<>>)

getPawnMoves(g, row, col) ==
    LET pins == g.pins
        pi == PinIndex(pins, row, col, Len(pins))
        piecePinned == pi # 0
        pinDirection == IF pi # 0 THEN <<pins[pi][3], pins[pi][4]>> ELSE <<>>
        pins1 == IF pi # 0 THEN RemoveFirst(pins, pins[pi]) ELSE pins
        moveAmount == IF g.whiteToMove THEN -1 ELSE 1
        startRow == IF g.whiteToMove THEN 6 ELSE 1
        backRow == IF g.whiteToMove THEN 0 ELSE 7
        enemyColor == IF g.whiteToMove THEN "b" ELSE "w"
        advance ==
            IF g.board[row + moveAmount][col] = EMPTY
               /\ (~piecePinned \/ pinDirection = <<moveAmount, 0>>)
            THEN << Move(<<row, col>>, <<row + moveAmount, col>>, g.board,
                         FALSE, row + moveAmount = backRow, FALSE) >>
                 \o (IF row = startRow /\ g.board[row + 2 * moveAmount][col] = EMPTY
                     THEN << PlainMove(<<row, col>>, <<row + 2 * moveAmount, col>>, g.board) >>
                     ELSE <<>>)
            ELSE <<>>
    IN  [moves |-> advance
                   \o PawnCaptures(g, row, col, -1, moveAmount, backRow, enemyColor,
                                   piecePinned, pinDirection)
                   \o PawnCaptures(g, row, col, 1, moveAmount, backRow, enemyColor,
                                   piecePinned, pinDirection),
         gs |-> [g EXCEPT !.pins = pins1]]

\* The loop "for i in range(1, 8)" of a sliding piece in direction d from
\* step i on
RECURSIVE Slide(_, _, _, _, _, _, _)
Slide(g, r, c, d, i, piecePinned, pinDirection) ==
    LET endRow == r + d[1] * i
        endCol == c + d[2] * i
        enemyColor == IF g.whiteToMove THEN "b" ELSE "w"
    IN  IF i > 7 \/ ~OnBoard(endRow, endCol) THEN <<>>
        ELSE IF ~piecePinned \/ pinDirection = d \/ pinDirection = <<-d[1], -d[2]>>
        THEN LET endPiece == g.board[endRow][endCol]
             IN  IF endPiece = EMPTY
                 THEN << PlainMove(<<r, c>>, <<endRow, endCol>>, g.board) >>
                      \o Slide(g, r, c, d, i + 1, piecePinned, pinDirection)
                 ELSE IF endPiece[1] = enemyColor
                 THEN << PlainMove(<<r, c>>, <<endRow, endCol>>, g.board) >>
                 ELSE <<>>
        ELSE Slide(g, r, c, d, i + 1, piecePinned, pinDirection)

RECURSIVE SlideAll(_, _, _, _, _, _, _)
SlideAll(g, r, c, dirs, k, piecePinned, pinDirection) ==
    IF k > Len(dirs) THEN <<>>
    ELSE Slide(g, r, c, dirs[k], 1, piecePinned, pinDirection)
         \o SlideAll(g, r, c, dirs, k + 1, piecePinned, pinDirection)

getRookMoves(g, r, c) ==
    LET pins == g.pins
        pi == PinIndex(pins, r, c, Len(pins))
        piecePinned == pi # 0
        pinDirection == IF pi # 0 THEN <<pins[pi][3], pins[pi][4]>> ELSE <<>>
        \* a queen's pin is not removed by the rook part
        pins1 == IF pi # 0 /\ g.board[r][c][2] # "Q"
                 THEN RemoveFirst(pins, pins[pi]) ELSE pins
    IN  [moves |-> SlideAll(g, r, c, << <<-1, 0>>, <<0, -1>>, <<1, 0>>, <<0, 1>> >>, 1,
                            piecePinned, pinDirection),
         gs |-> [g EXCEPT !.pins = pins1]]

getBishopMoves(g, r, c) ==
    LET pins == g.pins
        pi == PinIndex(pins, r, c, Len(pins))
        piecePinned == pi # 0
        pinDirection == IF pi # 0 THEN <<pins[pi][3], pins[pi][4]>> ELSE <<>>
        pins1 == IF pi # 0 THEN RemoveFirst(pins, pins[pi]) ELSE pins
    IN  [moves |-> SlideAll(g, r, c, << <<-1, -1>>, <<-1, 1>>, <<1, -1>>, <<1, 1>> >>, 1,
                            piecePinned, pinDirection),
         gs |-> [g EXCEPT !.pins = pins1]]

\* the list moves followed by what the next generator t appends, in the
\* state t leaves
Joined(moves, t) == [moves |-> moves \o t.moves, gs |-> t.gs]

\* the rook part of getQueenMoves, run in the state the bishop part b leaves
RookPart(b, r, c) == Joined(b.moves, getRookMoves(b.gs, r, c))

\* getQueenMoves calling getRookMoves twice
getQueenMovesRookTwice(g, r, c) == RookPart(getRookMoves(g, r, c), r, c)

\* the bishop part runs first and hands its pin list to the rook part
getQueenMoves(g, r, c) == RookPart(getBishopMoves(g, r, c), r, c)

RECURSIVE KnightSteps(_, _, _, _, _)
KnightSteps(g, r, c, lo, hi) ==
    IF lo < hi
    THEN KnightSteps(g, r, c, lo, (lo + hi) \div 2)
         \o KnightSteps(g, r, c, (lo + hi) \div 2 + 1, hi)
    ELSE LET m == knightMoves[lo]
             endRow == r + m[1]
             endCol == c + m[2]
             allyColor == IF g.whiteToMove THEN "w" ELSE "b"
         IN  IF OnBoard(endRow, endCol) /\ g.board[endRow][endCol][1] # allyColor
             THEN << PlainMove(<<r, c>>, <<endRow, endCol>>, g.board) >>
             ELSE <<>>

getKnightMoves(g, r, c) ==
    LET pins == g.pins
        pi == PinIndex(pins, r, c, Len(pins))
        piecePinned == pi # 0
        pins1 == IF pi # 0 THEN RemoveFirst(pins, pins[pi]) ELSE pins
    IN  [moves |-> IF piecePinned THEN <<>> ELSE KnightSteps(g, r, c, 1, 8),
         gs |-> [g EXCEPT !.pins = pins1]]

rowMoves == <<-1, -1, -1, 0, 0, 1, 1, 1>>
colMoves == <<-1, 0, 1, -1, 1, -1, 0, 1>>

\* getKingMoves: the king is put on the end square in the king-location
\* field (the board is left as it is), the checks are recomputed, and the
\* field is put back
\* The loop "for i in range(8)" for the steps lo .. hi, taken in two halves.
RECURSIVE KingSteps(_, _, _, _, _)
KingSteps(g, row, col, lo, hi) ==
    IF lo < hi
    THEN KingSteps(g, row, col, lo, (lo + hi) \div 2)
         \o KingSteps(g, row, col, (lo + hi) \div 2 + 1, hi)
    ELSE LET endRow == row + rowMoves[lo]
             endCol == col + colMoves[lo]
             allyColor == IF g.whiteToMove THEN "w" ELSE "b"
             moved == IF allyColor = "w"
                      THEN [g EXCEPT !.whiteKingLocation = <<endRow, endCol>>]
                      ELSE [g EXCEPT !.blackKingLocation = <<endRow, endCol>>]
         IN  IF OnBoard(endRow, endCol)
                /\ g.board[endRow][endCol][1] # allyColor
                /\ ~checkForPinsAndChecks(moved).inCheck
             THEN << PlainMove(<<row, col>>, <<endRow, endCol>>, g.board) >>
             ELSE <<>>

\* getKingMoves leaves (row, col) in the king-location field whenever a
\* candidate square was tried
getKingMoves(g, row, col) ==
    LET allyColor == IF g.whiteToMove THEN "w" ELSE "b"
        tried == \E i \in 1 .. 8 :
                    /\ OnBoard(row + rowMoves[i], col + colMoves[i])
                    /\ g.board[row + rowMoves[i]][col + colMoves[i]][1] # allyColor
    IN  [moves |-> KingSteps(g, row, col, 1, 8),
         gs |-> IF ~tried THEN g
                ELSE IF allyColor = "w"
                THEN [g EXCEPT !.whiteKingLocation = <<row, col>>]
                ELSE [g EXCEPT !.blackKingLocation = <<row, col>>]]

\* self.moveFunctions[piece](r, c, moves)
PieceMoves(g, r, c) ==
    LET piece == g.board[r][c][2]
    IN  CASE piece = "P" -> getPawnMoves(g, r, c)
          [] piece = "R" -> getRookMoves(g, r, c)
          [] piece = "N" -> getKnightMoves(g, r, c)
          [] piece = "B" -> getBishopMoves(g, r, c)
          [] piece = "Q" -> getQueenMoves(g, r, c)
          [] OTHER -> getKingMoves(g, r, c)

\* The loops "for r ... for c ..." of getAllPossibleMoves: the rest of the
\* row r from the column c on, and the rows from r on.  Each gives
\* [moves, gs].
\* RestOfRow and RestOfRows continue the loops after the moves h of a
\* piece, or of a row, have been appended.
RECURSIVE AllMovesInRow(_, _, _)
RECURSIVE RestOfRow(_, _, _)
RestOfRow(h, r, c) == Joined(h.moves, AllMovesInRow(h.gs, r, c + 1))

AllMovesInRow(g, r, c) ==
    IF c > 7 THEN [moves |-> <<>>, gs |-> g]
    ELSE IF \/ (g.board[r][c][1] = "w" /\ g.whiteToMove)
            \/ (g.board[r][c][1] = "b" /\ ~g.whiteToMove)
    THEN RestOfRow(PieceMoves(g, r, c), r, c)
    ELSE AllMovesInRow(g, r, c + 1)

RECURSIVE AllMovesFromRow(_, _)
RECURSIVE RestOfRows(_, _)
RestOfRows(h, r) == Joined(h.moves, AllMovesFromRow(h.gs, r + 1))

AllMovesFromRow(g, r) ==
    IF r > 7 THEN [moves |-> <<>>, gs |-> g]
    ELSE RestOfRows(AllMovesInRow(g, r, 0), r)

getAllPossibleMoves(g) == AllMovesFromRow(g, 0)

\* EndsOn without "self.whiteToMove = not self.whiteToMove" after the
\* opponent's moves were generated
EndsOnTurnKept(opp, r, c) ==
    [attacked |-> \E k \in 1 .. Len(opp.moves) :
                     opp.moves[k].endRow = r /\ opp.moves[k].endCol = c,
     gs |-> opp.gs]

\* squareUnderAttack(r, c): [attacked, gs]
\* "any(move.endRow == r and move.endCol == c for move in oppMoves)" with
\* the turn switched back, opp being what getAllPossibleMoves gave for the
\* opponent
EndsOn(opp, r, c) ==
    [attacked |-> \E k \in 1 .. Len(opp.moves) :
                     opp.moves[k].endRow = r /\ opp.moves[k].endCol = c,
     gs |-> [opp.gs EXCEPT !.whiteToMove = ~opp.gs.whiteToMove]]

squareUnderAttack(g, r, c) ==
    EndsOn(getAllPossibleMoves([g EXCEPT !.whiteToMove = ~g.whiteToMove]), r, c)

\* "if not squareUnderAttack(first) and not squareUnderAttack(second):
\* moves.append(move)", a1 and a2 being the answers for the first and the
\* second square: the second is asked only when the first is not attacked
CastleIfSafe(a2, move) ==
    [moves |-> IF a2.attacked THEN <<>> ELSE <<move>>, gs |-> a2.gs]

SecondSquare(a1, row, col, move) ==
    IF a1.attacked THEN [moves |-> <<>>, gs |-> a1.gs]
    ELSE CastleIfSafe(squareUnderAttack(a1.gs, row, col), move)

getKingsideCastleMoves(g, row, col) ==
    IF g.board[row][col + 1] = EMPTY /\ g.board[row][col + 2] = EMPTY
    THEN SecondSquare(squareUnderAttack(g, row, col + 1), row, col + 2,
                      Move(<<row, col>>, <<row, col + 2>>, g.board, FALSE, FALSE, TRUE))
    ELSE [moves |-> <<>>, gs |-> g]

getQueensideCastleMoves(g, row, col) ==
    IF g.board[row][col - 1] = EMPTY /\ g.board[row][col - 2] = EMPTY
       /\ g.board[row][col - 3] = EMPTY
    THEN SecondSquare(squareUnderAttack(g, row, col - 1), row, col - 2,
                      Move(<<row, col>>, <<row, col - 2>>, g.board, FALSE, FALSE, TRUE))
    ELSE [moves |-> <<>>, gs |-> g]

\* the kingside part of getCastleMoves in the state g0, and the queenside
\* part after the kingside part ks
KingsidePart(g0, row, col) ==
    IF (g0.whiteToMove /\ g0.currentCastlingRights.wks)
       \/ (~g0.whiteToMove /\ g0.currentCastlingRights.bks)
    THEN getKingsideCastleMoves(g0, row, col)
    ELSE [moves |-> <<>>, gs |-> g0]

QueensidePart(ks, row, col) ==
    Joined(ks.moves,
           IF (ks.gs.whiteToMove /\ ks.gs.currentCastlingRights.wqs)
              \/ (~ks.gs.whiteToMove /\ ks.gs.currentCastlingRights.bqs)
           THEN getQueensideCastleMoves(ks.gs, row, col)
           ELSE [moves |-> <<>>, gs |-> ks.gs])

\* getCastleMoves after "if self.squareUnderAttack(row, col)" gave a0
CastleParts(a0, row, col) ==
    IF a0.attacked THEN [moves |-> <<>>, gs |-> a0.gs]
    ELSE QueensidePart(KingsidePart(a0.gs, row, col), row, col)

getCastleMoves(g, row, col) == CastleParts(squareUnderAttack(g, row, col), row, col)

\* the squares of validSquares for the single check
ValidSquares(g, kingRow, kingCol, check) ==
    IF g.board[check[1]][check[2]][2] = "N"
    THEN {<<check[1], check[2]>>}
    ELSE {<<kingRow + check[3] * i, kingCol + check[4] * i>> : i \in 1 .. 7}
         \ {<<check[1], check[2]>>}

\* "[move for move in moves if ...]"
FilterMoves(moves, validSquares) ==
    SelectSeq(moves, LAMBDA move : \/ move.pieceMoved[2] = "K"
                                   \/ <<move.endRow, move.endCol>> \in validSquares)

\* MateFlags with "self.staleMate = not self.inCheck" written without the
\* "not self.inCheck": a list without moves always counts as a stalemate
MateFlagsStaleWhenEmpty(moves, inCheck) ==
    [checkMate |-> moves = <<>> /\ inCheck,
     staleMate |-> moves = <<>>]

\* "if not moves: ... else: ...": the flags checkMate and staleMate that
\* getValidMoves sets for the list moves
MateFlags(moves, inCheck) ==
    IF moves = <<>>
    THEN [checkMate |-> inCheck, staleMate |-> ~inCheck]
    ELSE [checkMate |-> FALSE, staleMate |-> FALSE]

\* "self.inCheck, self.pins, self.checks = self.checkForPinsAndChecks()"
WithChecks(g, pc) ==
    [g EXCEPT !.inCheck = pc.inCheck, !.pins = pc.pins, !.checks = pc.checks]

\* the moves kept under a single check, all being what getAllPossibleMoves
\* gave
Evasions(all, validSquares) ==
    [moves |-> FilterMoves(all.moves, validSquares), gs |-> all.gs]

\* "moves = self.getAllPossibleMoves(); self.getCastleMoves(kingRow,
\* kingCol, moves)"
WithCastles(all, kingRow, kingCol) ==
    Joined(all.moves, getCastleMoves(all.gs, kingRow, kingCol))

\* Generated filtering all moves by the line of the first check also when
\* two pieces give check
GeneratedByFirstCheck(g1, kingRow, kingCol) ==
    IF g1.inCheck
    THEN Evasions(getAllPossibleMoves(g1),
                  ValidSquares(g1, kingRow, kingCol, g1.checks[1]))
    ELSE WithCastles(getAllPossibleMoves(g1), kingRow, kingCol)

\* the branches "if self.inCheck: ... else: ..." of getValidMoves
Generated(g1, kingRow, kingCol) ==
    IF g1.inCheck
    THEN IF Len(g1.checks) = 1
         THEN Evasions(getAllPossibleMoves(g1),
                       ValidSquares(g1, kingRow, kingCol, g1.checks[1]))
         ELSE getKingMoves(g1, kingRow, kingCol)
    ELSE WithCastles(getAllPossibleMoves(g1), kingRow, kingCol)

\* the end of getValidMoves: the flags are set for the list res.moves and
\* currentCastlingRights becomes the object tempCastleRights
Finished(res, tempCastleRights) ==
    [moves |-> res.moves,
     gs |-> [res.gs EXCEPT !.checkMate = MateFlags(res.moves, res.gs.inCheck).checkMate,
                           !.staleMate = MateFlags(res.moves, res.gs.inCheck).staleMate,
                           !.currentCastlingRights = tempCastleRights,
                           !.crRef = 0]]

\* getValidMoves: [moves, gs], gs being the state the call leaves
getValidMoves(g) ==
    Finished(Generated(WithChecks(g, checkForPinsAndChecks(g)),
                       KingLocation(g)[1], KingLocation(g)[2]),
             g.currentCastlingRights)

\* ------------------------------------------------------------------------
\* The search bot (myBot.py)
\* ------------------------------------------------------------------------
CHECKMATE == 1000
STALEMATE == 0
\* the module global DEPTH: the depth of the search
VARIABLE DEPTH

pieceScore(kind) ==
    CASE kind = "K" -> 0
      [] kind = "Q" -> 9
      [] kind = "R" -> 5
      [] kind = "B" -> 3
      [] kind = "N" -> 3
      [] OTHER -> 1

\* the material loops of scoreBoard: a row from the column c on, and the
\* rows from r on
RECURSIVE MaterialInRow(_, _)
MaterialInRow(row, c) ==
    IF c > 7 THEN 0
    ELSE (IF row[c][1] = "w" THEN pieceScore(row[c][2])
          ELSE IF row[c][1] = "b" THEN -pieceScore(row[c][2])
          ELSE 0)
         + MaterialInRow(row, c + 1)

RECURSIVE Material(_, _)
Material(board, r) ==
    IF r > 7 THEN 0 ELSE MaterialInRow(board[r], 0) + Material(board, r + 1)

\* scoreBoard counting the material whatever the flags say
scoreBoardOfMaterial(g) == Material(g.board, 0)

scoreBoard(g) ==
    IF g.checkMate
    THEN (IF g.whiteToMove THEN -CHECKMATE ELSE CHECKMATE)
    ELSE IF g.staleMate THEN STALEMATE
    ELSE Material(g.board, 0)

\* findMoveNegaMaxAlphaBeta.  The result is [score, gs, nextMove]: the value
\* returned, the game state the call leaves and the global nextMove, which
\* is <<>> for None and <<m>> for the move m.  SearchLoop is the loop
\* "for move in validMoves" from the i-th move on.  The recursive call hands
\* over, by position, (depth - 1, -beta, -alpha, -turnMultiplier) for the
\* parameters (depth, turnMultiplier, alpha, beta).
RECURSIVE SearchLoop(_, _, _, _, _, _, _, _, _)
RECURSIVE findMoveNegaMaxAlphaBeta(_, _, _, _, _, _, _)

\* the recursive call, next being what gs.getValidMoves() gave after the
\* move was made
Deeper(next, depth, turnMultiplier, alpha, beta, nextMove) ==
    findMoveNegaMaxAlphaBeta(next.gs, next.moves, depth - 1,
                             -beta, -alpha, -turnMultiplier, nextMove)

findMoveNegaMaxAlphaBeta(g, validMoves, depth, turnMultiplier, alpha, beta, nextMove) ==
    IF depth = 0
    THEN [score |-> turnMultiplier * scoreBoard(g), gs |-> g, nextMove |-> nextMove]
    ELSE SearchLoop(g, validMoves, 1, depth, turnMultiplier, alpha, beta, -CHECKMATE, nextMove)

SearchLoop(g, validMoves, i, depth, turnMultiplier, alpha, beta, maxScore, nextMove) ==
    IF i > Len(validMoves)
    THEN [score |-> maxScore, gs |-> g, nextMove |-> nextMove]
    ELSE LET sub == Deeper(getValidMoves(makeMove(g, validMoves[i])),
                           depth, turnMultiplier, alpha, beta, nextMove)
             score == -sub.score
             maxScore1 == IF score > maxScore THEN score ELSE maxScore
             nextMove1 == IF score > maxScore /\ depth = DEPTH
                          THEN <<validMoves[i]>> ELSE sub.nextMove
             alpha1 == IF maxScore1 > alpha THEN maxScore1 ELSE alpha
         IN  IF alpha1 >= beta
             THEN [score |-> maxScore1, gs |-> undoMove(sub.gs), nextMove |-> nextMove1]
             ELSE SearchLoop(undoMove(sub.gs), validMoves, i + 1, depth, turnMultiplier,
                             alpha1, beta, maxScore1, nextMove1)

\* findBestMove: [nextMove, gs]
Returned(r) == [nextMove |-> r.nextMove, gs |-> r.gs]

findBestMove(g, validMoves) ==
    Returned(findMoveNegaMaxAlphaBeta(g, validMoves, DEPTH,
                                      IF g.whiteToMove THEN 1 ELSE -1,
                                      -CHECKMATE, CHECKMATE, <<>>))

\* findMoveNegaMax, the search without pruning.  The result is as that of
\* findMoveNegaMaxAlphaBeta.
RECURSIVE NegaMaxLoop(_, _, _, _, _, _, _)
RECURSIVE findMoveNegaMax(_, _, _, _, _)

DeeperNegaMax(next, depth, turnMultiplier, nextMove) ==
    findMoveNegaMax(next.gs, next.moves, depth - 1, -turnMultiplier, nextMove)

findMoveNegaMax(g, validMoves, depth, turnMultiplier, nextMove) ==
    IF depth = 0
    THEN [score |-> turnMultiplier * scoreBoard(g), gs |-> g, nextMove |-> nextMove]
    ELSE NegaMaxLoop(g, validMoves, 1, depth, turnMultiplier, -CHECKMATE, nextMove)

NegaMaxLoop(g, validMoves, i, depth, turnMultiplier, maxScore, nextMove) ==
    IF i > Len(validMoves)
    THEN [score |-> maxScore, gs |-> g, nextMove |-> nextMove]
    ELSE LET sub == DeeperNegaMax(getValidMoves(makeMove(g, validMoves[i])),
                                  depth, turnMultiplier, nextMove)
         IN  IF -sub.score > maxScore
             THEN NegaMaxLoop(undoMove(sub.gs), validMoves, i + 1, depth, turnMultiplier,
                              -sub.score,
                              IF depth = DEPTH THEN <<validMoves[i]>> ELSE sub.nextMove)
             ELSE NegaMaxLoop(undoMove(sub.gs), validMoves, i + 1, depth, turnMultiplier,
                              maxScore, sub.nextMove)

\* ------------------------------------------------------------------------
\* The games played: the callers of the engine
\* ------------------------------------------------------------------------
\* Move.filesToCols and Move.ranksToRows
filesToCols(f) ==
    CASE f = "a" -> 0 [] f = "b" -> 1 [] f = "c" -> 2 [] f = "d" -> 3
      [] f = "e" -> 4 [] f = "f" -> 5 [] f = "g" -> 6 [] OTHER -> 7

ranksToRows(k) == 8 - k

\* Texts are sequences of characters.
colsToFiles(c) == <<"a", "b", "c", "d", "e", "f", "g", "h">>[c + 1]

rowsToRanks(r) == <<"8", "7", "6", "5", "4", "3", "2", "1">>[r + 1]

getRankFile(row, col) == <<colsToFiles(col), rowsToRanks(row)>>

\* str.upper on one character
upper(ch) ==
    CASE ch = "p" -> "P" [] ch = "n" -> "N" [] ch = "b" -> "B"
      [] ch = "r" -> "R" [] ch = "q" -> "Q" [] ch = "k" -> "K"
      [] OTHER -> ch

\* Move.__str__
str(move) ==
    IF move.isCastleMove
    THEN (IF move.endCol = 6 THEN <<"O", "-", "O">> ELSE <<"O", "-", "O", "-", "O">>)
    ELSE IF move.pieceMoved[2] = "P"
    THEN (IF isCaptureMove(move)
          THEN (IF move.isEnpassantMove
                THEN <<colsToFiles(move.startCol), "x">>
                     \o getRankFile(move.endRow, move.endCol) \o <<"e", ".", "p", ".">>
                ELSE <<colsToFiles(move.startCol), "x">>
                     \o getRankFile(move.endRow, move.endCol))
          ELSE (IF move.isPawnPromotion
                THEN getRankFile(move.endRow, move.endCol)
                     \o <<"=", upper(move.pieceMoved[2])>>
                ELSE getRankFile(move.endRow, move.endCol)))
    ELSE <<move.pieceMoved[2]>>
         \o (IF isCaptureMove(move) THEN <<"x">> ELSE <<>>)
         \o getRankFile(move.endRow, move.endCol)

\* the texts drawMoveLog renders, one for each move of the log
moveTexts(moveLog) == [i \in 1 .. Len(moveLog) |-> str(moveLog[i])]

\* the two squares clicked for a move, e.g. Sq("e", 2, "e", 4) for e2e4
Sq(f1, k1, f2, k2) ==
    <<ranksToRows(k1), filesToCols(f1), ranksToRows(k2), filesToCols(f2)>>

\* The opening lines the players follow from the initial position; after
\* the last move of a line they play any moves.
ScholarsMate ==
    << Sq("e", 2, "e", 4), Sq("e", 7, "e", 5), Sq("f", 1, "c", 4),
       Sq("b", 8, "c", 6), Sq("d", 1, "h", 5), Sq("g", 8, "f", 6),
       Sq("h", 5, "f", 7) >>

FoolsMate ==
    << Sq("f", 2, "f", 3), Sq("e", 7, "e", 5), Sq("g", 2, "g", 4),
       Sq("d", 8, "h", 4) >>

PinnedQueen ==
    << Sq("e", 2, "e", 4), Sq("d", 7, "d", 5), Sq("f", 1, "b", 5),
       Sq("d", 8, "d", 7), Sq("a", 2, "a", 3) >>

CheckerCapture ==
    << Sq("e", 2, "e", 4), Sq("d", 7, "d", 5), Sq("e", 4, "d", 5),
       Sq("d", 8, "d", 5), Sq("b", 1, "c", 3), Sq("d", 5, "e", 4) >>

PawnOnH2 ==
    << Sq("e", 2, "e", 4), Sq("g", 7, "g", 5), Sq("g", 1, "f", 3),
       Sq("g", 5, "g", 4), Sq("f", 1, "c", 4), Sq("g", 4, "g", 3),
       Sq("a", 2, "a", 3), Sq("g", 3, "h", 2) >>

KingsGoHome ==
    << Sq("e", 2, "e", 4), Sq("e", 7, "e", 5), Sq("g", 1, "f", 3),
       Sq("g", 8, "f", 6), Sq("f", 1, "c", 4), Sq("f", 8, "c", 5),
       Sq("e", 1, "e", 2), Sq("e", 8, "e", 7), Sq("e", 2, "e", 1),
       Sq("e", 7, "e", 8) >>

LoydStalemate ==
    << Sq("e", 2, "e", 3), Sq("a", 7, "a", 5), Sq("d", 1, "h", 5),
       Sq("a", 8, "a", 6), Sq("h", 5, "a", 5), Sq("h", 7, "h", 5),
       Sq("h", 2, "h", 4), Sq("a", 6, "h", 6), Sq("a", 5, "c", 7),
       Sq("f", 7, "f", 6), Sq("c", 7, "d", 7), Sq("e", 8, "f", 7),
       Sq("d", 7, "b", 7), Sq("d", 8, "d", 3), Sq("b", 7, "b", 8),
       Sq("d", 3, "h", 7), Sq("b", 8, "c", 8), Sq("f", 7, "g", 6),
       Sq("c", 8, "e", 6) >>

BothCastle ==
    << Sq("e", 2, "e", 4), Sq("e", 7, "e", 5), Sq("g", 1, "f", 3),
       Sq("g", 8, "f", 6), Sq("f", 1, "c", 4), Sq("f", 8, "c", 5),
       Sq("e", 1, "g", 1), Sq("e", 8, "g", 8) >>

EnPassant ==
    << Sq("e", 2, "e", 4), Sq("a", 7, "a", 6), Sq("e", 4, "e", 5),
       Sq("d", 7, "d", 5) >>

Promotion ==
    << Sq("h", 2, "h", 4), Sq("g", 7, "g", 5), Sq("h", 4, "g", 5),
       Sq("g", 8, "f", 6), Sq("g", 5, "g", 6), Sq("a", 7, "a", 6),
       Sq("g", 6, "g", 7), Sq("a", 6, "a", 5) >>

QueenCheck ==
    << Sq("f", 2, "f", 3), Sq("c", 7, "c", 6), Sq("g", 2, "g", 3),
       Sq("g", 7, "g", 5), Sq("b", 2, "b", 4), Sq("d", 8, "c", 7),
       Sq("c", 1, "a", 3), Sq("c", 7, "g", 3) >>

\* 3. Qg4 leaves the queen to the pawn on h5, the only capture black has
QueenEnPrise ==
    << Sq("a", 2, "a", 3), Sq("h", 7, "h", 5), Sq("e", 2, "e", 3),
       Sq("a", 7, "a", 6), Sq("d", 1, "g", 4) >>

\* 6... d5 passes the pawn on e5, on the fifth rank with the white king on
\* g5, the black queen on b5 and the black pawn on a5
KingOnFifthRank ==
    << Sq("e", 2, "e", 4), Sq("a", 7, "a", 5), Sq("e", 4, "e", 5),
       Sq("c", 7, "c", 6), Sq("e", 1, "e", 2), Sq("d", 8, "b", 6),
       Sq("e", 2, "f", 3), Sq("b", 6, "b", 5), Sq("f", 3, "g", 4),
       Sq("b", 8, "a", 6), Sq("g", 4, "g", 5), Sq("d", 7, "d", 5) >>

\* 3... Bxa3 takes the rook that came from h1, the rook on a1 at home
RookLift ==
    << Sq("h", 2, "h", 4), Sq("e", 7, "e", 6), Sq("h", 1, "h", 3),
       Sq("a", 7, "a", 6), Sq("h", 3, "a", 3), Sq("f", 8, "a", 3) >>

\* 4... Qe1 pins the pawn on e2 to the king on e4, the square e3 empty
PawnBehindKing ==
    << Sq("f", 2, "f", 4), Sq("e", 7, "e", 6), Sq("e", 1, "f", 2),
       Sq("a", 7, "a", 6), Sq("f", 2, "e", 3), Sq("d", 8, "h", 4),
       Sq("e", 3, "e", 4), Sq("h", 4, "e", 1) >>

\* 7. Nd6 checks the king on e8 and opens the e-file for the queen on e2
DoubleCheck ==
    << Sq("e", 2, "e", 4), Sq("e", 7, "e", 5), Sq("d", 2, "d", 4),
       Sq("e", 5, "d", 4), Sq("b", 1, "c", 3), Sq("d", 7, "d", 5),
       Sq("e", 4, "d", 5), Sq("a", 7, "a", 6), Sq("c", 3, "e", 4),
       Sq("a", 6, "a", 5), Sq("d", 1, "e", 2), Sq("h", 7, "h", 6),
       Sq("e", 4, "d", 6) >>

\* 3... Qd6 leaves the pin of the queen on d7 and 4. Bxe8 takes the king
KingTaken ==
    << Sq("e", 2, "e", 4), Sq("d", 7, "d", 5), Sq("f", 1, "b", 5),
       Sq("d", 8, "d", 7), Sq("a", 2, "a", 3), Sq("d", 7, "d", 6),
       Sq("b", 5, "e", 8) >>

Book ==
    << ScholarsMate, FoolsMate, PinnedQueen, CheckerCapture,
       PawnOnH2, KingsGoHome, LoydStalemate, BothCastle,
       EnPassant, Promotion, QueenCheck, QueenEnPrise,
       KingOnFifthRank, RookLift, PawnBehindKing, DoubleCheck,
       KingTaken >>

\* the lines at whose end the bot is asked for a move
SearchLines == {9, 11, 12}

\* the value of DEPTH in the games of each line: 3 as the module sets it,
\* and 1 in the games of the last line
Depths(l) == IF l = 12 THEN {1} ELSE {3}

VARIABLES
    gs,          \* the GameState object
    validMoves,  \* the list the last call of getValidMoves returned
    fresh,       \* validMoves was returned for the present position
    bestMove,    \* what the last call of findBestMove returned: <<>> is None
    lastOp,      \* the operation called last
    line,        \* the opening line of this game
    undos,       \* number of undoMove calls so far
    searches     \* number of findBestMove calls so far

\* the locals of main() the turn of the AI goes through
VARIABLES
    AIThinking,          \* a worker was started and its move is not yet made
    moveFinderProcess,   \* the worker: "none", "alive", "ended" or "terminated"
    returnQueue,         \* what was put on the queue and not yet taken
    gameOver,
    moveUndone,
    waiting              \* the main loop is inside returnQueue.get()

ai == <<AIThinking, moveFinderProcess, returnQueue, gameOver, moveUndone, waiting>>

vars == <<gs, validMoves, fresh, bestMove, lastOp, line, undos, searches, DEPTH,
          AIThinking, moveFinderProcess, returnQueue, gameOver, moveUndone, waiting>>

\* main() before its loop, as far as the turn of the AI is concerned
InitMain ==
    /\ AIThinking = FALSE
    /\ moveFinderProcess = "none"
    /\ returnQueue = <<>>
    /\ gameOver = FALSE
    /\ moveUndone = FALSE
    /\ waiting = FALSE

Init ==
    /\ gs = InitGameState
    /\ validMoves = <<>>
    /\ fresh = FALSE
    /\ bestMove = <<>>
    /\ lastOp = "init"
    /\ line \in 1 .. Len(Book)
    /\ undos = 0
    /\ searches = 0
    /\ DEPTH \in Depths(line)
    /\ InitMain

Clicks(m) == <<m.startRow, m.startCol, m.endRow, m.endCol>>

\* validMoves = gs.getValidMoves()
GetValidMoves ==
    /\ ~fresh
    /\ \E v \in {getValidMoves(gs)} :
          /\ gs' = v.gs
          /\ validMoves' = v.moves
    /\ fresh' = TRUE
    /\ lastOp' = "getValidMoves"
    /\ UNCHANGED <<bestMove, line, undos, searches, DEPTH>>
    /\ UNCHANGED ai

\* gs.makeMove(validMoves[k]), the move being the next one of the opening
\* line or, after the line in a game without takebacks so far, any move
MakeMove(k) ==
    /\ fresh
    /\ IF Len(gs.moveLog) < Len(Book[line])
       THEN Clicks(validMoves[k]) = Book[line][Len(gs.moveLog) + 1]
       ELSE Len(gs.moveLog) < Len(Book[line]) + MaxFree /\ undos = 0
    /\ gs' = makeMove(gs, validMoves[k])
    /\ fresh' = FALSE
    /\ lastOp' = "makeMove"
    /\ UNCHANGED <<validMoves, bestMove, line, undos, searches, DEPTH>>
    /\ UNCHANGED ai

\* gs.undoMove()
UndoMove ==
    /\ undos < MaxUndo
    /\ gs' = undoMove(gs)
    /\ undos' = undos + 1
    /\ fresh' = FALSE
    /\ lastOp' = "undoMove"
    /\ UNCHANGED <<validMoves, bestMove, line, searches, DEPTH>>
    /\ UNCHANGED ai

\* findBestMove(gs, validMoves)
FindBestMove ==
    /\ fresh
    /\ searches < MaxSearch
    /\ line \in SearchLines
    /\ Len(gs.moveLog) = Len(Book[line])
    /\ undos = 0
    /\ \E r \in {findBestMove(gs, validMoves)} :
          /\ gs' = r.gs
          /\ bestMove' = r.nextMove
    /\ searches' = searches + 1
    /\ fresh' = FALSE
    /\ lastOp' = "findBestMove"
    /\ UNCHANGED <<validMoves, line, undos, DEPTH>>
    /\ UNCHANGED ai

Next ==
    \/ GetValidMoves
    \/ \E k \in 1 .. Len(validMoves) : MakeMove(k)
    \/ UndoMove
    \/ FindBestMove

Spec == Init /\ [][Next]_vars

\* ------------------------------------------------------------------------
\* The main loop of ChessMain.py with a human for white and the AI for
\* black.  One action is one turn of "while running": the event handled,
\* the AI section and the section "if moveMade".  The worker is a process
\* of its own, with its own copy of gs and validMoves.
\* ------------------------------------------------------------------------
playerOne == TRUE
playerTwo == FALSE

humanTurn(g) == (g.whiteToMove /\ playerOne) \/ (~g.whiteToMove /\ playerTwo)

\* the positional arguments the Process hands to its target, and the
\* parameters of the target findBestMove
WorkerArgs == <<"gs", "validMoves", "returnQueue">>
findBestMoveParameters == <<"gs", "validMoves">>

\* What the worker puts on returnQueue before it ends.  With as many
\* arguments as parameters findBestMove runs and returns nextMove to the
\* Process, which drops it: the function has no queue to put it on.  With
\* another number of arguments the call raises TypeError.
WorkerPuts(args) ==
    IF Len(args) = Len(findBestMoveParameters) THEN <<>> ELSE <<>>

\* "if AIMove is None: AIMove = myBot.findRandomMove(gs, validMoves)": the
\* moves the driver may make for the item taken from the queue, <<>> being
\* None
AIMoves(item, moves) ==
    IF item = <<>> THEN {moves[k] : k \in 1 .. Len(moves)} ELSE {item[1]}

\* main() up to its loop: "validMoves = gs.getValidMoves()" on a new game
InitAI ==
    /\ \E v \in {getValidMoves(InitGameState)} :
          /\ gs = v.gs
          /\ validMoves = v.moves
    /\ fresh = TRUE
    /\ bestMove = <<>>
    /\ lastOp = "main"
    /\ line = 0
    /\ undos = 0
    /\ searches = 0
    /\ DEPTH \in Depths(line)
    /\ InitMain

\* the second click of the human gives the move validMoves[k]: makeMove,
\* then "if moveMade: validMoves = gs.getValidMoves()"
ClickMove(k) ==
    /\ ~waiting
    /\ ~gameOver
    /\ humanTurn(gs)
    /\ \E v \in {getValidMoves(makeMove(gs, validMoves[k]))} :
          /\ gs' = v.gs
          /\ validMoves' = v.moves
          /\ gameOver' = (v.gs.checkMate \/ v.gs.staleMate)
    /\ moveUndone' = FALSE
    /\ fresh' = TRUE
    /\ lastOp' = "click"
    /\ UNCHANGED <<bestMove, line, undos, searches, DEPTH,
                   AIThinking, moveFinderProcess, returnQueue, waiting>>

\* the key z: undoMove, the worker terminated if the AI is thinking; the
\* AI section of the same turn of the loop starts a worker when it was not
\* the human's turn at the top of the loop and no worker was there; then
\* "if moveMade"
UndoKey ==
    /\ ~waiting
    /\ undos < MaxUndo
    /\ \E started \in {~humanTurn(gs) /\ ~AIThinking /\ ~moveUndone} :
          /\ AIThinking' = started
          /\ moveFinderProcess' =
                IF started THEN "alive"
                ELSE IF AIThinking /\ moveFinderProcess = "alive" THEN "terminated"
                ELSE moveFinderProcess
          /\ returnQueue' = IF started THEN <<>> ELSE returnQueue
    /\ \E v \in {getValidMoves(undoMove(gs))} :
          /\ gs' = v.gs
          /\ validMoves' = v.moves
          /\ gameOver' = (v.gs.checkMate \/ v.gs.staleMate)
    /\ moveUndone' = FALSE
    /\ undos' = undos + 1
    /\ fresh' = TRUE
    /\ lastOp' = "z"
    /\ UNCHANGED <<bestMove, line, searches, DEPTH, waiting>>

\* the key r: a new GameState and its list, the worker terminated if the
\* AI is thinking, moveUndone set
ResetKey ==
    /\ ~waiting
    /\ \E v \in {getValidMoves(InitGameState)} :
          /\ gs' = v.gs
          /\ validMoves' = v.moves
          /\ gameOver' = (v.gs.checkMate \/ v.gs.staleMate)
    /\ AIThinking' = FALSE
    /\ moveFinderProcess' =
          IF AIThinking /\ moveFinderProcess = "alive" THEN "terminated"
          ELSE moveFinderProcess
    /\ moveUndone' = TRUE
    /\ fresh' = TRUE
    /\ lastOp' = "r"
    /\ UNCHANGED <<bestMove, line, undos, searches, DEPTH, returnQueue, waiting>>

\* the AI section with no worker there: a queue is made and the worker is
\* started
StartWorker ==
    /\ ~waiting
    /\ ~gameOver
    /\ ~humanTurn(gs)
    /\ ~moveUndone
    /\ ~AIThinking
    /\ AIThinking' = TRUE
    /\ returnQueue' = <<>>
    /\ moveFinderProcess' = "alive"
    /\ lastOp' = "start"
    /\ UNCHANGED <<gs, validMoves, fresh, bestMove, line, undos, searches, DEPTH,
                   gameOver, moveUndone, waiting>>

\* the worker runs its target to the end
WorkerRuns ==
    /\ moveFinderProcess = "alive"
    /\ returnQueue' = returnQueue \o WorkerPuts(WorkerArgs)
    /\ moveFinderProcess' = "ended"
    /\ lastOp' = "worker"
    /\ UNCHANGED <<gs, validMoves, fresh, bestMove, line, undos, searches, DEPTH,
                   AIThinking, gameOver, moveUndone, waiting>>

\* the AI section with the worker no longer alive: "AIMove =
\* returnQueue.get()" waits for an item; with an item the move is made and
\* the list renewed
GetResult ==
    /\ ~waiting
    /\ ~gameOver
    /\ ~humanTurn(gs)
    /\ ~moveUndone
    /\ AIThinking
    /\ moveFinderProcess # "alive"
    /\ IF returnQueue = <<>>
       THEN /\ waiting' = TRUE
            /\ UNCHANGED <<gs, validMoves, fresh, returnQueue, AIThinking, gameOver,
                           moveUndone>>
       ELSE /\ \E m \in AIMoves(Head(returnQueue), validMoves) :
                  \E v \in {getValidMoves(makeMove(gs, m))} :
                      /\ gs' = v.gs
                      /\ validMoves' = v.moves
                      /\ gameOver' = (v.gs.checkMate \/ v.gs.staleMate)
            /\ returnQueue' = Tail(returnQueue)
            /\ AIThinking' = FALSE
            /\ moveUndone' = FALSE
            /\ fresh' = TRUE
            /\ UNCHANGED waiting
    /\ lastOp' = "get"
    /\ UNCHANGED <<bestMove, line, undos, searches, DEPTH, moveFinderProcess>>

NextAI ==
    \/ \E k \in 1 .. Len(validMoves) : ClickMove(k)
    \/ UndoKey
    \/ ResetKey
    \/ StartWorker
    \/ WorkerRuns
    \/ GetResult

\* the main loop keeps turning and the worker process is scheduled; the
\* human need not do anything
SpecAI ==
    /\ InitAI
    /\ [][NextAI]_vars
    /\ WF_vars(StartWorker)
    /\ WF_vars(WorkerRuns)
    /\ WF_vars(GetResult)

\* ------------------------------------------------------------------------
\* The rules of chess on a board, stated without the engine's bookkeeping
\* (king-location fields, pins, checks): what the properties below compare
\* the engine with.
\* ------------------------------------------------------------------------
Squares == Rows \X Rows

Enemy(color) == IF color = "w" THEN "b" ELSE "w"

SideToMove(g) == IF g.whiteToMove THEN "w" ELSE "b"

PieceAt(board, r, c) == IF OnBoard(r, c) THEN board[r][c] ELSE EMPTY

SquaresOf(board, piece) == {sq \in Squares : board[sq[1]][sq[2]] = piece}

OneKingEach(board) ==
    /\ Cardinality(SquaresOf(board, <<"w", "K">>)) = 1
    /\ Cardinality(SquaresOf(board, <<"b", "K">>)) = 1

Orthogonal == {<<-1, 0>>, <<1, 0>>, <<0, -1>>, <<0, 1>>}

Diagonal == {<<-1, -1>>, <<-1, 1>>, <<1, -1>>, <<1, 1>>}

KnightJumps ==
    {<<-2, -1>>, <<-2, 1>>, <<-1, -2>>, <<-1, 2>>,
     <<1, -2>>, <<1, 2>>, <<2, -1>>, <<2, 1>>}

\* the first occupied square met from (r, c) in the direction d, <<>> if none
RECURSIVE FirstOnRay(_, _, _, _)
FirstOnRay(board, r, c, d) ==
    IF ~OnBoard(r + d[1], c + d[2]) THEN <<>>
    ELSE IF board[r + d[1]][c + d[2]] # EMPTY THEN <<r + d[1], c + d[2]>>
    ELSE FirstOnRay(board, r + d[1], c + d[2], d)

\* a piece of kind kind1 or kind2 of the colour by is the first piece met
\* from (r, c) in the direction d
SliderOnRay(board, r, c, d, by, kind1, kind2) ==
    LET f == FirstOnRay(board, r, c, d)
    IN  /\ f # <<>>
        /\ board[f[1]][f[2]] \in {<<by, kind1>>, <<by, kind2>>}

\* a piece of the colour by attacks the square (r, c): a pawn on one of its
\* two diagonals, a knight, a rook, bishop or queen with a free line, the king
Attacked(board, r, c, by) ==
    \/ \E dc \in {-1, 1} :
          PieceAt(board, r + (IF by = "w" THEN 1 ELSE -1), c + dc) = <<by, "P">>
    \/ \E j \in KnightJumps : PieceAt(board, r + j[1], c + j[2]) = <<by, "N">>
    \/ \E d \in Orthogonal \cup Diagonal :
          PieceAt(board, r + d[1], c + d[2]) = <<by, "K">>
    \/ \E d \in Orthogonal : SliderOnRay(board, r, c, d, by, "R", "Q")
    \/ \E d \in Diagonal : SliderOnRay(board, r, c, d, by, "B", "Q")

\* a king of the colour color stands attacked
KingAttacked(board, color) ==
    \E k \in SquaresOf(board, <<color, "K">>) :
        Attacked(board, k[1], k[2], Enemy(color))

\* the squares a rook, bishop or queen of the colour color reaches from
\* (r, c) in the direction d
RECURSIVE SlideTargets(_, _, _, _, _)
SlideTargets(board, color, r, c, d) ==
    LET r1 == r + d[1]
        c1 == c + d[2]
    IN  IF ~OnBoard(r1, c1) THEN {}
        ELSE IF board[r1][c1] = EMPTY
        THEN {<<r1, c1>>} \cup SlideTargets(board, color, r1, c1, d)
        ELSE IF board[r1][c1][1] = Enemy(color) THEN {<<r1, c1>>}
        ELSE {}

StepTargets(board, color, r, c, steps) ==
    {sq \in {<<r + s[1], c + s[2]>> : s \in steps} :
        OnBoard(sq[1], sq[2]) /\ board[sq[1]][sq[2]][1] # color}

PawnTargets(board, color, r, c, ep) ==
    LET fwd == IF color = "w" THEN -1 ELSE 1
        home == IF color = "w" THEN 6 ELSE 1
        one == IF PieceAt(board, r + fwd, c) = EMPTY /\ OnBoard(r + fwd, c)
               THEN {<<r + fwd, c>>} ELSE {}
        two == IF r = home /\ board[r + fwd][c] = EMPTY /\ board[r + 2 * fwd][c] = EMPTY
               THEN {<<r + 2 * fwd, c>>} ELSE {}
        takes == {sq \in {<<r + fwd, c - 1>>, <<r + fwd, c + 1>>} :
                    /\ OnBoard(sq[1], sq[2])
                    /\ \/ board[sq[1]][sq[2]][1] = Enemy(color)
                       \/ /\ sq = ep
                          /\ board[sq[1]][sq[2]] = EMPTY
                          /\ board[r][sq[2]] = <<Enemy(color), "P">>}
    IN  one \cup two \cup takes

\* castling by the rules: the right is held, king and rook stand on their
\* home squares, the squares between them are empty, and the king neither
\* stands on, passes nor arrives on an attacked square
CastleTargets(board, color, r, c, rights) ==
    LET home == IF color = "w" THEN 7 ELSE 0
        ks == IF color = "w" THEN rights.wks ELSE rights.bks
        qs == IF color = "w" THEN rights.wqs ELSE rights.bqs
        safe(cols) == \A x \in cols : ~Attacked(board, home, x, Enemy(color))
    IN  IF r # home \/ c # 4 THEN {}
        ELSE (IF /\ ks
                 /\ board[home][7] = <<color, "R">>
                 /\ board[home][5] = EMPTY /\ board[home][6] = EMPTY
                 /\ safe({4, 5, 6})
              THEN {<<home, 6>>} ELSE {})
             \cup
             (IF /\ qs
                 /\ board[home][0] = <<color, "R">>
                 /\ board[home][1] = EMPTY /\ board[home][2] = EMPTY
                 /\ board[home][3] = EMPTY
                 /\ safe({4, 3, 2})
              THEN {<<home, 2>>} ELSE {})

\* the squares the piece on (r, c) moves to by the movement rules; a king
\* is never captured
RuleTargets(board, color, r, c, ep, rights) ==
    LET kind == board[r][c][2]
        all == CASE kind = "P" -> PawnTargets(board, color, r, c, ep)
                 [] kind = "N" -> StepTargets(board, color, r, c, KnightJumps)
                 [] kind = "K" -> StepTargets(board, color, r, c, Orthogonal \cup Diagonal)
                                    \cup CastleTargets(board, color, r, c, rights)
                 [] kind = "R" -> UNION {SlideTargets(board, color, r, c, d) : d \in Orthogonal}
                 [] kind = "B" -> UNION {SlideTargets(board, color, r, c, d) : d \in Diagonal}
                 [] OTHER -> UNION {SlideTargets(board, color, r, c, d) :
                                       d \in Orthogonal \cup Diagonal}
    IN  {sq \in all : board[sq[1]][sq[2]][2] # "K"}

\* the board after the move from (r, c) to (r1, c1) by the rules: en passant
\* takes the pawn passed, a pawn on the last row becomes a queen, castling
\* moves the rook
RuleBoard(board, r, c, r1, c1) ==
    LET piece == board[r][c]
        placed == IF piece[2] = "P" /\ r1 \in {0, 7} THEN <<piece[1], "Q">> ELSE piece
        b1 == [board EXCEPT ![r][c] = EMPTY, ![r1][c1] = placed]
        b2 == IF piece[2] = "P" /\ c1 # c /\ board[r1][c1] = EMPTY
              THEN [b1 EXCEPT ![r][c1] = EMPTY] ELSE b1
    IN  IF piece[2] = "K" /\ c1 - c = 2
        THEN [b2 EXCEPT ![r][5] = board[r][7], ![r][7] = EMPTY]
        ELSE IF piece[2] = "K" /\ c - c1 = 2
        THEN [b2 EXCEPT ![r][3] = board[r][0], ![r][0] = EMPTY]
        ELSE b2

\* the legal moves of the side to move, each as <<startRow, startCol,
\* endRow, endCol>>: by the movement rules and not leaving the own king
\* attacked
LegalMoves(g) ==
    LET color == SideToMove(g)
    IN  UNION {
          {<<sq[1], sq[2], t[1], t[2]>> :
              t \in {u \in RuleTargets(g.board, color, sq[1], sq[2],
                                       g.enpassantPossible, g.currentCastlingRights) :
                        ~KingAttacked(RuleBoard(g.board, sq[1], sq[2], u[1], u[2]), color)}} :
          sq \in {s \in Squares : g.board[s[1]][s[2]][1] = color} }

\* the values of what a position consists of
Position(g) ==
    <<g.board, g.whiteToMove, g.whiteKingLocation, g.blackKingLocation,
      g.currentCastlingRights, g.enpassantPossible>>

Indices(s) == 1 .. Len(s)

\* ------------------------------------------------------------------------
\* Properties
\* ------------------------------------------------------------------------
\* C1 (round-trip law): in every position reached by makeMove and undoMove
\* for which getValidMoves has returned its list, and for every move m of
\* the list, makeMove(m) immediately followed by undoMove() leaves the
\* board, whiteToMove, both king locations, the four castling-right values
\* and enpassantPossible equal to their values before the makeMove.
C1_RoundTrip ==
    fresh => \A k \in Indices(validMoves) :
                 Position(undoMove(makeMove(gs, validMoves[k]))) = Position(gs)

\* C2 (soundness of getValidMoves): in a position with one king per colour,
\* after makeMove(m) of any move m of the list returned by getValidMoves the
\* king of the side that moved is not attacked by any enemy piece.
C2_Soundness ==
    fresh /\ OneKingEach(gs.board) =>
        \A k \in Indices(validMoves) :
            ~KingAttacked(makeMove(gs, validMoves[k]).board, SideToMove(gs))

\* C3 (completeness of getValidMoves): in a position with one king per
\* colour, every move of the side to move that obeys the movement rules
\* (double pawn advance, en passant, promotion and castling included) and
\* leaves the mover's king unattacked is in the list getValidMoves returns.
C3_Completeness ==
    fresh /\ OneKingEach(gs.board) =>
        \A mv \in LegalMoves(gs) :
            \E k \in Indices(validMoves) : Clicks(validMoves[k]) = mv

\* C4 (findBestMove leaves the game state unmutated): when findBestMove
\* returns, the board, whiteToMove, both king locations, the castling-right
\* values, enpassantPossible and moveLog equal their values at the call.
C4_SearchLeavesState ==
    [][lastOp' = "findBestMove" =>
          Position(gs') = Position(gs) /\ gs'.moveLog = gs.moveLog]_vars

\* C5 (findBestMove returns None only for an empty list): called with a
\* non-empty list of legal moves, findBestMove returns a move of that list.
C5_SearchReturnsMove ==
    lastOp = "findBestMove" /\ validMoves # <<>> =>
        \E k \in Indices(validMoves) : bestMove = <<validMoves[k]>>

\* C6 (mate flags): after every call of getValidMoves, checkMate is true
\* iff the list returned is empty and the side to move is in check,
\* staleMate is true iff the list is empty and the side to move is not in
\* check, both are false when the list is not empty, and never both true.
C6_MateFlags ==
    lastOp = "getValidMoves" =>
        /\ gs.checkMate <=>
              (validMoves = <<>> /\ KingAttacked(gs.board, SideToMove(gs)))
        /\ gs.staleMate <=>
              (validMoves = <<>> /\ ~KingAttacked(gs.board, SideToMove(gs)))
        /\ validMoves # <<>> => ~gs.checkMate /\ ~gs.staleMate
        /\ ~(gs.checkMate /\ gs.staleMate)

\* a side that is not in check has no move: getValidMoves has set staleMate
C6_Stalemated ==
    /\ lastOp = "getValidMoves"
    /\ validMoves = <<>>
    /\ ~KingAttacked(gs.board, SideToMove(gs))
    /\ gs.staleMate
    /\ ~gs.checkMate

\* the moves of the line have been made, in their order, from the initial
\* position and nothing else has been called but getValidMoves
Played(moves) ==
    /\ undos = 0
    /\ searches = 0
    /\ Len(gs.moveLog) = Len(moves)
    /\ \A i \in Indices(moves) : Clicks(gs.moveLog[i]) = moves[i]

\* C7 (Scholar's mate): after e2e4, e7e5, f1c4, b8c6, d1h5, g8f6, h5xf7
\* made with makeMove from the initial position, getValidMoves returns an
\* empty list for black and checkMate is true.
C7_ScholarsMate ==
    Played(ScholarsMate) /\ lastOp = "getValidMoves" =>
        validMoves = <<>> /\ gs.checkMate

\* The piece of the colour color that stands alone between its king on k
\* and an enemy piece attacking along the direction d, with the squares of
\* the line from the king to that enemy piece: <<p, line>>, <<>> if none.
PinOnRay(board, color, k, d) ==
    LET p == FirstOnRay(board, k[1], k[2], d)
        q == IF p = <<>> THEN <<>> ELSE FirstOnRay(board, p[1], p[2], d)
        n == IF q = <<>> THEN 0
             ELSE IF Abs(q[1] - k[1]) > Abs(q[2] - k[2])
                  THEN Abs(q[1] - k[1]) ELSE Abs(q[2] - k[2])
    IN  IF /\ q # <<>>
           /\ board[p[1]][p[2]][1] = color
           /\ board[p[1]][p[2]][2] # "K"
           /\ board[q[1]][q[2]] \in
                 {<<Enemy(color), "Q">>,
                  <<Enemy(color), IF d \in Orthogonal THEN "R" ELSE "B">>}
        THEN <<p, {<<k[1] + i * d[1], k[2] + i * d[2]>> : i \in 1 .. n}>>
        ELSE <<>>

\* C8 (pin restriction): whenever a non-king piece of the side to move
\* stands alone between its king and an enemy piece attacking along that
\* line, every move of that piece in the list getValidMoves returns ends on
\* a square of the pin line, and a pinned knight has no move.
C8_PinRestriction ==
    fresh =>
        \A k \in SquaresOf(gs.board, <<SideToMove(gs), "K">>) :
            \A d \in Orthogonal \cup Diagonal :
                \A pin \in {PinOnRay(gs.board, SideToMove(gs), k, d)} :
                    pin # <<>> =>
                        \A i \in Indices(validMoves) :
                            <<validMoves[i].startRow, validMoves[i].startCol>> = pin[1] =>
                                /\ <<validMoves[i].endRow, validMoves[i].endCol>> \in pin[2]
                                /\ validMoves[i].pieceMoved[2] # "N"

\* the side to move holds the castling right of the side (kingside or not)
HoldsRight(g, kingside) ==
    IF g.whiteToMove
    THEN (IF kingside THEN g.currentCastlingRights.wks ELSE g.currentCastlingRights.wqs)
    ELSE (IF kingside THEN g.currentCastlingRights.bks ELSE g.currentCastlingRights.bqs)

\* the list holds the castle move of the side
CastleListed(moves, kingside) ==
    \E i \in Indices(moves) :
        /\ moves[i].isCastleMove
        /\ moves[i].pieceMoved[2] = "K"
        /\ moves[i].endCol - moves[i].startCol = (IF kingside THEN 2 ELSE -2)

\* the squares between king and rook are empty and no enemy piece attacks
\* the square of the king, the square it passes or the one it arrives on
CastleOpen(board, color, kingside) ==
    \E k \in SquaresOf(board, <<color, "K">>) :
        LET s == IF kingside THEN 1 ELSE -1
            between == IF kingside THEN {1, 2} ELSE {1, 2, 3}
        IN  /\ \A x \in between :
                  OnBoard(k[1], k[2] + s * x) /\ board[k[1]][k[2] + s * x] = EMPTY
            /\ \A x \in {0, 1, 2} : ~Attacked(board, k[1], k[2] + s * x, Enemy(color))

\* C9 (castling legality): for the side to move holding the castling right,
\* the castle move is in the list getValidMoves returns iff all squares
\* between king and rook are empty and no enemy piece (pawns and the enemy
\* king included) attacks the king's square, the square it passes or its
\* destination.
C9_CastlingLegality ==
    fresh =>
        \A kingside \in BOOLEAN :
            HoldsRight(gs, kingside) =>
                (CastleListed(validMoves, kingside)
                    <=> CastleOpen(gs.board, SideToMove(gs), kingside))

RightNames == {"wks", "bks", "wqs", "bqs"}

\* the king of the colour has moved; its rook has left the corner
KingHasMoved(g, color) ==
    \E i \in Indices(g.moveLog) : g.moveLog[i].pieceMoved = <<color, "K">>

RookHasMoved(g, color, col) ==
    \E i \in Indices(g.moveLog) :
        /\ g.moveLog[i].pieceMoved = <<color, "R">>
        /\ g.moveLog[i].startRow = (IF color = "w" THEN 7 ELSE 0)
        /\ g.moveLog[i].startCol = col

\* no castle move is in the list for a king that has moved or with a rook
\* that has moved
NoCastleOnceMoved ==
    fresh =>
        \A i \in Indices(validMoves) :
            validMoves[i].isCastleMove =>
                /\ ~KingHasMoved(gs, SideToMove(gs))
                /\ ~RookHasMoved(gs, SideToMove(gs),
                                 IF validMoves[i].endCol > validMoves[i].startCol
                                 THEN 7 ELSE 0)

\* C10 (castling rights are monotonic in forward play): along makeMove and
\* getValidMoves calls with no undoMove, a castling right that is false
\* never becomes true again, and once a king or a corner rook has moved no
\* castle move with it is generated, also when it stands on its home square
\* again.
C10_RightsMonotonic ==
    [][undos' = 0 /\ searches' = 0 =>
          /\ \A x \in RightNames :
                ~gs.currentCastlingRights[x] => ~gs'.currentCastlingRights[x]
          /\ NoCastleOnceMoved']_vars

\* the white king has moved and is back on e1 with the rook on h1, f1 and
\* g1 are empty and no square of the king's way is attacked: the right is
\* gone and the list holds no castle move
C10_KingBackHome ==
    /\ fresh
    /\ undos = 0
    /\ searches = 0
    /\ gs.whiteToMove
    /\ KingHasMoved(gs, "w")
    /\ gs.board[7][4] = <<"w", "K">>
    /\ gs.board[7][7] = <<"w", "R">>
    /\ CastleOpen(gs.board, "w", TRUE)
    /\ ~gs.currentCastlingRights.wks
    /\ \A i \in Indices(validMoves) : ~validMoves[i].isCastleMove

\* C11 (king invariant): in every state reached by makeMove of moves that
\* getValidMoves returned (and undoMove) the board holds exactly one white
\* and exactly one black king, and no move of a list getValidMoves returned
\* captures a king.
C11_KingInvariant ==
    /\ OneKingEach(gs.board)
    /\ fresh => \A k \in Indices(validMoves) : validMoves[k].pieceCaptured[2] # "K"

\* The squares a move passes over between its start and its end rank on its
\* start file.
JumpedOver(m) ==
    {<<r, m.startCol>> : r \in {x \in 0 .. 7 :
        \/ m.startRow < x /\ x < m.endRow
        \/ m.endRow < x /\ x < m.startRow}}

LastMove(g) == g.moveLog[Len(g.moveLog)]

\* C12 (en-passant target): right after makeMove of a pawn advancing two
\* ranks enpassantPossible is the square the pawn jumped over; right after
\* makeMove of any other move it is empty.
C12_EnpassantTarget ==
    lastOp = "makeMove" =>
        IF /\ LastMove(gs).pieceMoved[2] = "P"
           /\ Abs(LastMove(gs).endRow - LastMove(gs).startRow) = 2
        THEN JumpedOver(LastMove(gs)) = {gs.enpassantPossible}
        ELSE gs.enpassantPossible = <<>>

\* after e2e4 the target is (5, 4)
C12_AfterE2E4 ==
    /\ lastOp = "makeMove"
    /\ Len(gs.moveLog) = 1
    /\ Clicks(LastMove(gs)) = <<6, 4, 4, 4>>
    /\ gs.enpassantPossible = <<5, 4>>

\* C13 (initial position): the list getValidMoves returns for the initial
\* position has exactly 20 moves, 16 of pawns and 4 of knights, and leaves
\* checkMate and staleMate false.
C13_InitialMoves ==
    fresh /\ gs.moveLog = <<>> /\ gs.board = InitBoard /\ gs.whiteToMove =>
        /\ Len(validMoves) = 20
        /\ Cardinality({k \in Indices(validMoves) : validMoves[k].pieceMoved = <<"w", "P">>}) = 16
        /\ Cardinality({k \in Indices(validMoves) : validMoves[k].pieceMoved = <<"w", "N">>}) = 4
        /\ \A j, k \in Indices(validMoves) : j # k => ~MoveEq(validMoves[j], validMoves[k])
        /\ ~gs.checkMate
        /\ ~gs.staleMate

\* the list of the initial position, with e2e4 and g1f3 in it
C13_InitialList ==
    /\ fresh /\ gs.moveLog = <<>> /\ gs.board = InitBoard /\ gs.whiteToMove
    /\ lastOp = "getValidMoves"
    /\ \E k \in Indices(validMoves) : Clicks(validMoves[k]) = <<6, 4, 4, 4>>
    /\ \E k \in Indices(validMoves) : Clicks(validMoves[k]) = <<7, 6, 5, 5>>

\* the captures of a list of moves
Captures(moves) == {k \in Indices(moves) : isCaptureMove(moves[k])}

\* C14 (material-maximizing choice): with the search depth set to 1, on a
\* position where exactly one move of the list is a capture and it captures
\* a queen with a pawn, findBestMove returns that capture, for white and for
\* black.
C14_TakesTheQueen ==
    /\ lastOp = "findBestMove"
    /\ DEPTH = 1
    /\ Cardinality(Captures(validMoves)) = 1
    /\ \A k \in Captures(validMoves) :
          validMoves[k].pieceMoved[2] = "P" /\ validMoves[k].pieceCaptured[2] = "Q"
    => \E k \in Captures(validMoves) : bestMove = <<validMoves[k]>>

\* C15 (undo on an empty log): undoMove called with an empty moveLog leaves
\* the board, the side to move, the king locations, the castling rights, the
\* en-passant target, both snapshot logs and the checkMate and staleMate
\* flags as they were, and the moveLog empty.
C15_UndoNothing ==
    [][lastOp' = "undoMove" /\ gs.moveLog = <<>> =>
          /\ Position(gs') = Position(gs)
          /\ gs'.moveLog = <<>>
          /\ gs'.enpassantPossibleLog = gs.enpassantPossibleLog
          /\ gs'.castleRightsLog = gs.castleRightsLog
          /\ gs'.checkMate = gs.checkMate
          /\ gs'.staleMate = gs.staleMate]_vars

\* undoMove was called on the new game: nothing was made, the logs hold
\* their first entries only
C15_UndoneOnNewGame ==
    /\ lastOp = "undoMove"
    /\ undos = 1
    /\ gs.moveLog = <<>>
    /\ Len(gs.enpassantPossibleLog) = 1
    /\ Len(gs.castleRightsLog) = 1
    /\ Position(gs) = Position(InitGameState)

\* s begins with the characters of p
StartsWith(s, p) == Len(s) >= Len(p) /\ SubSeq(s, 1, Len(p)) = p

\* C16 (move text): the text of every move of the log with isPawnPromotion
\* is the destination square followed by "=Q"; the text of a castle is "O-O"
\* when the king lands on the g-file and "O-O-O" otherwise; the text of a
\* pawn capture begins with the origin file, "x" and the destination square.
C16_MoveText ==
    \A i \in Indices(gs.moveLog) :
        /\ gs.moveLog[i].isPawnPromotion =>
              moveTexts(gs.moveLog)[i] =
                  getRankFile(gs.moveLog[i].endRow, gs.moveLog[i].endCol) \o <<"=", "Q">>
        /\ gs.moveLog[i].isCastleMove =>
              moveTexts(gs.moveLog)[i] =
                  (IF gs.moveLog[i].endCol = 6 THEN <<"O", "-", "O">>
                   ELSE <<"O", "-", "O", "-", "O">>)
        /\ gs.moveLog[i].pieceMoved[2] = "P" /\ isCaptureMove(gs.moveLog[i]) =>
              StartsWith(moveTexts(gs.moveLog)[i],
                         <<colsToFiles(gs.moveLog[i].startCol), "x">>
                         \o getRankFile(gs.moveLog[i].endRow, gs.moveLog[i].endCol))

\* the squares strictly between the king on k and the checking piece on ch,
\* which stands on a line with the king
Between(k, ch) ==
    {sq \in Squares :
        \E i \in 1 .. 7 : \E n \in (i + 1) .. 7 : \E d \in Orthogonal \cup Diagonal :
            /\ sq = <<k[1] + i * d[1], k[2] + i * d[2]>>
            /\ ch = <<k[1] + n * d[1], k[2] + n * d[2]>>}

\* the squares where a piece other than the king parries the check given
\* from ch: the square of the checking piece and, unless it is a knight, the
\* squares between it and the king
EvasionSquares(board, k, ch) ==
    {ch} \cup (IF board[ch[1]][ch[2]][2] = "N" THEN {} ELSE Between(k, ch))

\* the piece on sq is pinned to the king on k
Pinned(board, color, k, sq) ==
    \E d \in Orthogonal \cup Diagonal :
        \E pin \in {PinOnRay(board, color, k, d)} : pin # <<>> /\ pin[1] = sq

\* the moves by the movement rules of the unpinned pieces, the king apart,
\* that end on a square of the set evade
UnpinnedEvasions(g, color, k, evade) ==
    UNION {
      {<<sq[1], sq[2], t[1], t[2]>> :
          t \in RuleTargets(g.board, color, sq[1], sq[2],
                            g.enpassantPossible, g.currentCastlingRights) \cap evade} :
      sq \in {s \in Squares : /\ g.board[s[1]][s[2]][1] = color
                              /\ g.board[s[1]][s[2]][2] # "K"
                              /\ ~Pinned(g.board, color, k, s)} }

EvasionRule(moves, wanted, evade) ==
    /\ \A i \in Indices(moves) :
          moves[i].pieceMoved[2] # "K" =>
              <<moves[i].endRow, moves[i].endCol>> \in evade
    /\ \A w \in wanted : \E i \in Indices(moves) : Clicks(moves[i]) = w

\* C17 (single-check evasion): when exactly one piece gives check, every
\* move of the list getValidMoves returns that is not a king move ends on
\* the square of the checking piece or, the checking piece not being a
\* knight, strictly between the king and it (so none ends beyond it), and
\* every such move by the movement rules of an unpinned piece is in the list.
C17_SingleCheckEvasion ==
    fresh /\ gs.inCheck /\ Len(gs.checks) = 1 =>
        EvasionRule(validMoves,
                    UnpinnedEvasions(gs, SideToMove(gs), KingLocation(gs),
                        EvasionSquares(gs.board, KingLocation(gs),
                                       <<gs.checks[1][1], gs.checks[1][2]>>)),
                    EvasionSquares(gs.board, KingLocation(gs),
                                   <<gs.checks[1][1], gs.checks[1][2]>>))

\* the multiplier findBestMove starts the search with
TurnMultiplier(g) == IF g.whiteToMove THEN 1 ELSE -1

\* the results a and n of the pruned and the unpruned search on the list
\* moves of g have the same value, and the move the pruned search selected
\* is one that the unpruned search values highest
SameSearch(g, moves, a, n) ==
    /\ a.score = n.score
    /\ (a.nextMove = <<>>) <=> (n.nextMove = <<>>)
    /\ a.nextMove # <<>> =>
          findMoveNegaMax(g, a.nextMove, DEPTH, TurnMultiplier(g), <<>>).score = n.score

\* C18 (pruning is sound): findMoveNegaMaxAlphaBeta started with the window
\* (-CHECKMATE, CHECKMATE) has the value of findMoveNegaMax, and the move it
\* selects is one of the moves findMoveNegaMax values highest; stated for
\* the positions and lists findBestMove is called with in the games whose
\* search depth is 1.
C18_SameAsNegaMax ==
    [][lastOp' = "findBestMove" /\ DEPTH = 1 =>
          SameSearch(gs, validMoves,
                     findMoveNegaMaxAlphaBeta(gs, validMoves, DEPTH, TurnMultiplier(gs),
                                              -CHECKMATE, CHECKMATE, <<>>),
                     findMoveNegaMax(gs, validMoves, DEPTH, TurnMultiplier(gs), <<>>))]_vars

\* the king on (kr, kc) stands on the row of the pawn that takes with m
\* and, on the board after m, where both pawns have left that row, a rook
\* or queen of the colour by is the first piece met from the king along
\* the row
ExposedOnRank(board, m, kr, kc, by) ==
    /\ kr = m.startRow
    /\ \E d \in {<<0, -1>>, <<0, 1>>} :
          SliderOnRay(RuleBoard(board, m.startRow, m.startCol, m.endRow, m.endCol),
                      kr, kc, d, by, "R", "Q")

\* C19 (en passant and the discovered check): the list of getValidMoves()
\* holds no en-passant capture after which, the king standing on the row of
\* the capturing pawn, a rook or queen of the other side attacks the king
\* along that row with nothing between them, whatever stands beyond that
\* rook or queen.
C19_NoExposingEnPassant ==
    fresh =>
        \A k \in Indices(validMoves) :
            validMoves[k].isEnpassantMove =>
                ~ExposedOnRank(gs.board, validMoves[k], KingLocation(gs)[1],
                               KingLocation(gs)[2], Enemy(SideToMove(gs)))

\* the colour a right belongs to and the corner its rook starts on
RightColour(name) == IF name \in {"wks", "wqs"} THEN "w" ELSE "b"

RightCorner(name) ==
    <<IF name \in {"wks", "wqs"} THEN 7 ELSE 0, IF name \in {"wks", "bks"} THEN 7 ELSE 0>>

\* m moves the king of the right's colour, moves a rook of that colour away
\* from the right's corner, or takes a rook of that colour on that corner
ClearsRight(name, m) ==
    \/ m.pieceMoved = <<RightColour(name), "K">>
    \/ /\ m.pieceMoved = <<RightColour(name), "R">>
       /\ <<m.startRow, m.startCol>> = RightCorner(name)
    \/ /\ m.pieceCaptured = <<RightColour(name), "R">>
       /\ <<m.endRow, m.endCol>> = RightCorner(name)

\* C20 (castling-rights update rule): a makeMove step clears a right exactly
\* when the move is of that colour's king, of a rook leaving its original
\* corner, or a capture of a rook on its original corner; every other move,
\* the capture of a rook on any other square among them, leaves the four
\* rights as they were.
C20_RightsUpdateRule ==
    [][lastOp' = "makeMove" =>
          \A name \in RightNames :
              gs'.currentCastlingRights[name] =
                  (gs.currentCastlingRights[name] /\ ~ClearsRight(name, LastMove(gs')))]_vars

\* the moves by the movement rules of the pawn, bishop, rook or queen
\* pin[1] that end on the line pin[2] of its pin
MovesOnPinLine(g, color, pin) ==
    IF g.board[pin[1][1]][pin[1][2]][2] \in {"P", "B", "R", "Q"}
    THEN {<<pin[1][1], pin[1][2], t[1], t[2]>> :
             t \in RuleTargets(g.board, color, pin[1][1], pin[1][2],
                               g.enpassantPossible, g.currentCastlingRights) \cap pin[2]}
    ELSE {}

\* C21 (a pinned piece keeps the pin line): when the side to move is not in
\* check, every move by the movement rules of a pinned pawn, bishop, rook
\* or queen that ends on the line of its pin, toward the pinning piece or
\* toward the own king, is in the list getValidMoves returns.
C21_PinnedKeepsLine ==
    fresh /\ ~KingAttacked(gs.board, SideToMove(gs)) =>
        \A k \in SquaresOf(gs.board, <<SideToMove(gs), "K">>) :
            \A d \in Orthogonal \cup Diagonal :
                \A pin \in {PinOnRay(gs.board, SideToMove(gs), k, d)} :
                    pin # <<>> =>
                        \A w \in MovesOnPinLine(gs, SideToMove(gs), pin) :
                            \E i \in Indices(validMoves) : Clicks(validMoves[i]) = w

\* the squares from which a piece of the colour by attacks the square (r, c)
Attackers(board, r, c, by) ==
    {<<r + (IF by = "w" THEN 1 ELSE -1), c + dc>> : dc \in
        {x \in {-1, 1} : PieceAt(board, r + (IF by = "w" THEN 1 ELSE -1), c + x)
                             = <<by, "P">>}}
    \cup {<<r + j[1], c + j[2]>> : j \in
             {x \in KnightJumps : PieceAt(board, r + x[1], c + x[2]) = <<by, "N">>}}
    \cup {<<r + d[1], c + d[2]>> : d \in
             {x \in Orthogonal \cup Diagonal :
                 PieceAt(board, r + x[1], c + x[2]) = <<by, "K">>}}
    \cup {FirstOnRay(board, r, c, d) : d \in
             {x \in Orthogonal : SliderOnRay(board, r, c, x, by, "R", "Q")}}
    \cup {FirstOnRay(board, r, c, d) : d \in
             {x \in Diagonal : SliderOnRay(board, r, c, x, by, "B", "Q")}}

\* two or more pieces give check to the side to move
DoubleChecked(g) ==
    Cardinality(Attackers(g.board, KingLocation(g)[1], KingLocation(g)[2],
                          Enemy(SideToMove(g)))) >= 2

\* m is a move of the king, not a castle, to a square where no piece of the
\* other side attacks it on the board after the move
KingToSafety(board, m, color) ==
    /\ m.pieceMoved = <<color, "K">>
    /\ ~m.isCastleMove
    /\ Abs(m.endRow - m.startRow) <= 1 /\ Abs(m.endCol - m.startCol) <= 1
    /\ ~Attacked(RuleBoard(board, m.startRow, m.startCol, m.endRow, m.endCol),
                 m.endRow, m.endCol, Enemy(color))

\* C22 (double check): when two or more pieces give check to the side to
\* move, every move of the list getValidMoves returns is a move of the king
\* to a square where it is not attacked, and none is a castle move.
C22_DoubleCheck ==
    fresh /\ DoubleChecked(gs) =>
        \A i \in Indices(validMoves) :
            KingToSafety(gs.board, validMoves[i], SideToMove(gs))

\* after 7. Nd6 the knight and the queen give check and the list is e8d7
C22_KnightAndQueen ==
    /\ fresh
    /\ DoubleChecked(gs)
    /\ Len(gs.checks) = 2
    /\ Len(validMoves) = 1
    /\ Clicks(validMoves[1]) = <<0, 4, 1, 3>>

\* the pieces of the kind on the board: those of white minus those of black
Surplus(board, kind) ==
    Cardinality(SquaresOf(board, <<"w", kind>>)) - Cardinality(SquaresOf(board, <<"b", kind>>))

\* white's material minus black's with pawn 1, knight 3, bishop 3, rook 5,
\* queen 9 and king 0
MaterialBalance(board) ==
    1 * Surplus(board, "P") + 3 * Surplus(board, "N") + 3 * Surplus(board, "B")
        + 5 * Surplus(board, "R") + 9 * Surplus(board, "Q") + 0 * Surplus(board, "K")

\* C23 (scoreBoard): on every state the game reaches scoreBoard(gs) is
\* -CHECKMATE with checkMate set and white to move, +CHECKMATE with
\* checkMate set and black to move, 0 with staleMate set, and otherwise
\* white's material minus black's with the values pawn 1, knight 3,
\* bishop 3, rook 5, queen 9, king 0; the value is computed from gs alone,
\* which scoreBoard leaves as it is.
C23_ScoreBoard ==
    scoreBoard(gs) =
        IF gs.checkMate THEN (IF gs.whiteToMove THEN -CHECKMATE ELSE CHECKMATE)
        ELSE IF gs.staleMate THEN 0
        ELSE MaterialBalance(gs.board)

\* white is mated with the material level: the value is that of the mate
C23_WhiteMated ==
    /\ fresh
    /\ gs.checkMate
    /\ gs.whiteToMove
    /\ MaterialBalance(gs.board) = 0
    /\ scoreBoard(gs) = -CHECKMATE

\* makeMove(m1) and undoMove() on g, as one turn of the search loop leaves g
\* for the next
TriedAndUndone(g, m1) == undoMove(makeMove(g, m1))

\* makeMove(m2) on g1 leaves the snapshots g1 has logged as they are, and
\* undoMove() after it brings back the rights g1 has
SnapshotsKept(g1, m2) ==
    /\ SubSeq(makeMove(g1, m2).castleRightsLog, 1, Len(g1.castleRightsLog))
          = g1.castleRightsLog
    /\ undoMove(makeMove(g1, m2)).currentCastlingRights = g1.currentCastlingRights

\* C24 (logged castling rights are not changed): in every position for
\* which getValidMoves has returned its list, after makeMove and undoMove
\* of one move of the list the makeMove of another, with no getValidMoves
\* in between as in the loop of the search, changes none of the snapshots
\* castleRightsLog already holds, and its undoMove brings back the rights
\* that held before it.
C24_SnapshotsImmutable ==
    fresh =>
        \A k1 \in Indices(validMoves) :
            \A g1 \in {TriedAndUndone(gs, validMoves[k1])} :
                \A k2 \in Indices(validMoves) : SnapshotsKept(g1, validMoves[k2])

\* C25 (the history logs stay parallel): in every state reached by makeMove
\* and undoMove, castleRightsLog and enpassantPossibleLog both have one
\* entry more than moveLog, the last entry of enpassantPossibleLog is
\* enpassantPossible and the last entry of castleRightsLog has the four
\* values of currentCastlingRights.
C25_LogsParallel ==
    /\ Len(gs.castleRightsLog) = Len(gs.moveLog) + 1
    /\ Len(gs.enpassantPossibleLog) = Len(gs.moveLog) + 1
    /\ gs.enpassantPossibleLog[Len(gs.enpassantPossibleLog)] = gs.enpassantPossible
    /\ gs.castleRightsLog[Len(gs.castleRightsLog)] = gs.currentCastlingRights

\* C26 (the king locations are tracked): in every state reached by
\* makeMove, castle moves among them, undoMove and getValidMoves,
\* whiteKingLocation is the square of the board that holds the white king
\* and blackKingLocation the square that holds the black king; so they are
\* as well when getValidMoves has returned.
C26_KingLocations ==
    /\ gs.board[gs.whiteKingLocation[1]][gs.whiteKingLocation[2]] = <<"w", "K">>
    /\ gs.board[gs.blackKingLocation[1]][gs.blackKingLocation[2]] = <<"b", "K">>

\* the king of the right's colour stands on its home square on the e-file
\* and a rook of that colour on the corner of the right
AtHome(board, name) ==
    /\ board[RightCorner(name)[1]][4] = <<RightColour(name), "K">>
    /\ board[RightCorner(name)[1]][RightCorner(name)[2]] = <<RightColour(name), "R">>

\* the right a castle move makes use of
RightUsed(m) ==
    IF m.pieceMoved[1] = "w"
    THEN (IF m.endCol > m.startCol THEN "wks" ELSE "wqs")
    ELSE (IF m.endCol > m.startCol THEN "bks" ELSE "bqs")

\* C27 (a held castling right implies the home squares): in every state
\* reached from the initial position by makeMove of moves getValidMoves
\* returned and by undoMove, each castling right that is true has the king
\* of its colour on the home square on the e-file and a rook of its colour
\* on the original corner of its side; and every castle move of a list
\* getValidMoves returned has that king and that rook in place.
C27_RightsImplyHome ==
    /\ \A name \in RightNames :
          gs.currentCastlingRights[name] => AtHome(gs.board, name)
    /\ fresh =>
          \A i \in Indices(validMoves) :
              validMoves[i].isCastleMove => AtHome(gs.board, RightUsed(validMoves[i]))

\* the two snapshot logs
Snapshots(g) == <<g.castleRightsLog, g.enpassantPossibleLog>>

\* C28 (getValidMoves observes the position): a call of getValidMoves
\* leaves the board, whiteToMove, both king locations, the four values of
\* the castling rights, enpassantPossible, moveLog and both snapshot logs
\* as they were, and a second call right after it returns the same list in
\* the same order and leaves them again.
C28_ObservesPosition ==
    [][lastOp' = "getValidMoves" =>
          /\ Position(gs') = Position(gs)
          /\ gs'.moveLog = gs.moveLog
          /\ Snapshots(gs') = Snapshots(gs)
          /\ \A again \in {getValidMoves(gs')} :
                /\ again.moves = validMoves'
                /\ Position(again.gs) = Position(gs)
                /\ again.gs.moveLog = gs.moveLog
                /\ Snapshots(again.gs) = Snapshots(gs)]_vars

\* getValidMoves has returned a list with a castle move, the squares of the
\* king's way having been asked of squareUnderAttack, and the side to move
\* and the king locations are those of the board
C28_CastleListed ==
    /\ lastOp = "getValidMoves"
    /\ \E i \in Indices(validMoves) : validMoves[i].isCastleMove
    /\ Len(gs.moveLog) > 0
    /\ gs.whiteToMove = (LastMove(gs).pieceMoved[1] = "b")
    /\ gs.board[KingLocation(gs)[1]][KingLocation(gs)[2]] = <<SideToMove(gs), "K">>

\* the entries of validMoves the scan of the UI finds equal, under
\* Move.__eq__, to the move built from the two clicks
Matches(move, moves) == {i \in Indices(moves) : MoveEq(move, moves[i])}

C30_AITurnCompletes ==
    (AIThinking /\ moveFinderProcess = "ended" /\ ~humanTurn(gs))
        ~> (~AIThinking \/ humanTurn(gs))

====
